---- MODULE Spec2Model ----
(***************************************************************************)
(* rostful message_conversion.py: the class registry (_get_class and its   *)
(* two locked caches) and the JSON <-> ROS message conversion              *)
(* (extract_values / populate_instance).                                   *)
(*                                                                         *)
(* Text that the code parses (type strings, ROS type names) is a sequence  *)
(* of one-character strings; field names, which are only compared and      *)
(* joined, are TLA+ strings.                                               *)
(***************************************************************************)
EXTENDS Integers, Sequences, FiniteSets, TLC

\* ------------------------------------------------------------------ bounds

\* Number of threads, each making one _get_msg_class / _get_srv_class call;
\* thread t is the t-th to begin its call.
NThreads == 3

Threads == 1..NThreads

\* The most keys a msg given to populate_instance holds, nested mappings
\* included, and the most fields of an instance that differ from the
\* constructor's.
MaxKeys == 2

\* The clock's reading when the model starts, and how often it may advance.
ClockStart == 100
MaxTicks == 1

\* The most bytes of a byte string and the most characters of a text given
\* for a byte-array field.
MaxBytes == 3
MaxText == 5

\* ------------------------------------------------------- the environment

\* Packages whose manifest roslib.launcher.load_manifest can load.
Manifests == { <<"p">>, <<"q">>, <<"s","t","d","_","m","s","g","s">> }

\* Importable submodules "<modname>.<subname>".
Modules == { << <<"p">>, "msg" >>, << <<"p">>, "srv" >>,
             << <<"s","t","d","_","m","s","g","s">>, "msg" >> }

\* Classes the imported submodules hold: <<modname, subname, classname>>.
Classes == { << <<"p">>, "msg", <<"T">> >>,
             << <<"p">>, "msg", <<"U">> >>,
             << <<"p">>, "srv", <<"T">> >>,
             << <<"s","t","d","_","m","s","g","s">>, "msg", <<"H","e","a","d","e","r">> >> }

\* The class object found by getattr(getattr(pypkg, subname), classname).
ClassObj(modname, sub, classname) == [mod |-> modname, sub |-> sub, cls |-> classname]

\* Python's None where a class is expected.
None == [mod |-> <<>>, sub |-> "", cls |-> <<>>]

\* The type strings the threads pass to _get_msg_class.
TypeStrings ==
  { <<"p","/","T">>,
    <<"/","p","/","/","T","/">>,
    <<"p","/","U">>,
    <<"p">>,
    <<"r","/","T">>,
    <<"q","/","T">>,
    <<"p","/","X">> }

\* The calls a thread can make: _get_msg_class(ts) or _get_srv_class(ts).
Requests ==
  { <<ts, "msg">> : ts \in TypeStrings }
    \cup { <<ts, "srv">> : ts \in { <<"p","/","T">>, <<"p","/","T","/","U">> } }

\* ------------------------------------------------------------------ state

VARIABLES
  py,           \* the interpreter's major version, 2 or 3
  loaded_msgs,  \* _loaded_msgs: key -> class
  loaded_srvs,  \* _loaded_srvs: key -> class
  msgs_lock,    \* _msgs_lock: 0 when free, else the holding thread
  srvs_lock,    \* _srvs_lock
  phase,        \* per thread: where in _get_class it is
  step,         \* per thread: where in a cache helper it is
  typestring,   \* per thread: _get_class's typestring
  subname,      \* per thread: _get_class's subname
  names,        \* per thread: <<modname, classname>> from _splittype
  cls,          \* per thread: _get_class's cls / the helper's ret
  result,       \* per thread: what the call returned or raised
  didLoad,      \* per thread: the call entered _load_class
  before,       \* per thread: the threads whose call had ended when this one began
  request,      \* the msg given to populate_instance
  target,       \* the inst given to populate_instance, as the caller sees it
  prior,        \* target as it was before the call
  rec,          \* the inst given to extract_values
  clock,        \* what rospy.get_rostime() returns
  field_rostype,\* the schema type of the field a single value is converted for
  default_stack,\* the list object that is the default of _to_inst's stack
  earlier,      \* what the populate_instance call before the last returned or raised
  out,          \* what the conversion call returned or raised
  op            \* the conversion called last

regvars == <<loaded_srvs, msgs_lock, srvs_lock, phase, step, typestring,
             subname, names, cls, result, didLoad, before>>
convvars == <<request, target, prior, rec, field_rostype, default_stack, earlier,
              clock, out, op>>
vars == <<py, loaded_msgs, regvars, convvars>>

\* ----------------------------------------------------------- _splittype

RECURSIVE SplitAcc(_, _, _)
SplitAcc(s, cur, acc) ==
  IF s = <<>> THEN Append(acc, cur)
  ELSE IF Head(s) = "/" THEN SplitAcc(Tail(s), <<>>, Append(acc, cur))
  ELSE SplitAcc(Tail(s), Append(cur, Head(s)), acc)

\* typestring.split("/")
Split(s) == SplitAcc(s, <<>>, <<>>)

NonEmpty(x) == x # <<>>

\* [x for x in typestring.split("/") if x]
splits(ts) == SelectSeq(Split(ts), NonEmpty)

\* A _splittype that accepts any string with at least two segments.
SplitOkAtLeastTwo(ts) == Len(splits(ts)) >= 2

\* _splittype returns normally
SplitOk(ts) == Len(splits(ts)) = 2

\* A normalisation that joins the two names without the separator.
norm_typestring_no_slash(modname, classname) == modname \o classname

\* modname + "/" + classname
norm_typestring(modname, classname) == modname \o <<"/">> \o classname

\* ------------------------------------------------------------ exceptions

\* The number of arguments each exception class's __init__ takes after self.
InitArity(class) ==
  CASE class = "InvalidMessageException" -> 1
    [] class = "NonexistentFieldException" -> 2
    [] class = "FieldTypeMismatchException" -> 4
    [] class = "InvalidTypeStringException" -> 1
    [] class = "InvalidPackageException" -> 2
    [] class = "InvalidModuleException" -> 3
    [] class = "InvalidClassException" -> 4

\* What `raise class(<nargs arguments>)` raises on interpreter version v: the
\* constructor call fails with TypeError when the argument count is not
\* __init__'s, and InvalidPackageException.__init__ reads
\* original_exception.message, an attribute exceptions have only on Python 2.
Raised(class, nargs, v) ==
  IF nargs # InitArity(class) THEN "TypeError"
  ELSE IF class = "InvalidPackageException" /\ v = 3 THEN "AttributeError"
  ELSE class

\* ------------------------------------------------------------ the caches

EmptyCache == [k \in {} |-> None]

CacheOf(sub) == IF sub = "msg" THEN loaded_msgs ELSE loaded_srvs
LockOf(sub) == IF sub = "msg" THEN msgs_lock ELSE srvs_lock

\* cache[key] = value
_add_to_cache(cache, key, value) ==
  [k \in (DOMAIN cache) \cup {key} |-> IF k = key THEN value ELSE cache[k]]

\* A lookup that never finds a key.
_get_from_cache_miss(cache, key) == None

\* ret = None; if key in cache: ret = cache[key]
_get_from_cache(cache, key) == IF key \in DOMAIN cache THEN cache[key] ELSE None

\* A registry that knows every class by the raw type string only.
KeyOf_raw(t) == typestring[t]

\* The key a cache helper is called with in each phase of _get_class.
KeyOf(t) ==
  IF phase[t] \in {"raw", "add_raw"} THEN typestring[t]
  ELSE norm_typestring(names[t][1], names[t][2])

NoResult == [kind |-> "none", val |-> None, exc |-> ""]
Returns(c) == [kind |-> "return", val |-> c, exc |-> ""]
Raises(e) == [kind |-> "raise", val |-> None, exc |-> e]

Ended(t) == phase[t] \in {"returned", "raised"}

\* ------------------------------------------------- _get_class, step by step

\* A thread calls _get_msg_class(ts) or _get_srv_class(ts) for one of reqs.
CallWith(t, reqs) ==
  /\ phase[t] = "idle"
  /\ \A u \in Threads : u < t => phase[u] # "idle"
  /\ \E req \in reqs :
       /\ typestring' = [typestring EXCEPT ![t] = req[1]]
       /\ subname' = [subname EXCEPT ![t] = req[2]]
  /\ phase' = [phase EXCEPT ![t] = "raw"]
  /\ step' = [step EXCEPT ![t] = "acquire"]
  /\ before' = [before EXCEPT ![t] = {u \in Threads : Ended(u)}]
  /\ UNCHANGED <<py, loaded_msgs, loaded_srvs, msgs_lock, srvs_lock, names, cls,
                 result, didLoad, convvars>>

\* A thread calls _get_msg_class(ts) or _get_srv_class(ts).
CallResolve(t) == CallWith(t, Requests)

\* lock.acquire() in _get_from_cache and _add_to_cache: blocks while held.
LockAcquire(t) ==
  /\ step[t] = "acquire"
  /\ LockOf(subname[t]) = 0
  /\ IF subname[t] = "msg"
       THEN msgs_lock' = t /\ UNCHANGED srvs_lock
       ELSE srvs_lock' = t /\ UNCHANGED msgs_lock
  /\ step' = [step EXCEPT ![t] = IF phase[t] \in {"raw", "norm"} THEN "read" ELSE "write"]
  /\ UNCHANGED <<py, loaded_msgs, loaded_srvs, phase, typestring, subname, names,
                 cls, result, didLoad, before, convvars>>

\* _get_from_cache's body between acquire and release.
CacheRead(t) ==
  /\ step[t] = "read"
  /\ cls' = [cls EXCEPT ![t] = _get_from_cache(CacheOf(subname[t]), KeyOf(t))]
  /\ step' = [step EXCEPT ![t] = "release"]
  /\ UNCHANGED <<py, loaded_msgs, loaded_srvs, msgs_lock, srvs_lock, phase,
                 typestring, subname, names, result, didLoad, before, convvars>>

\* _add_to_cache's body between acquire and release.
CacheWrite(t) ==
  /\ step[t] = "write"
  /\ IF subname[t] = "msg"
       THEN /\ loaded_msgs' = _add_to_cache(loaded_msgs, KeyOf(t), cls[t])
            /\ UNCHANGED loaded_srvs
       ELSE /\ loaded_srvs' = _add_to_cache(loaded_srvs, KeyOf(t), cls[t])
            /\ UNCHANGED loaded_msgs
  /\ step' = [step EXCEPT ![t] = "release"]
  /\ UNCHANGED <<py, msgs_lock, srvs_lock, phase, typestring, subname, names, cls,
                 result, didLoad, before, convvars>>

\* A registry that keeps the lock of the normalized lookup while it loads.
LockRelease_held_over_load(t) ==
  /\ step[t] = "release"
  /\ IF phase[t] = "norm" /\ cls[t] = None
       THEN UNCHANGED <<msgs_lock, srvs_lock>>
       ELSE IF subname[t] = "msg"
              THEN msgs_lock' = 0 /\ UNCHANGED srvs_lock
              ELSE srvs_lock' = 0 /\ UNCHANGED msgs_lock
  /\ phase' = [phase EXCEPT ![t] =
                 IF phase[t] \in {"raw", "norm"} /\ cls[t] # None THEN "returned"
                 ELSE IF phase[t] = "raw" THEN "split"
                 ELSE IF phase[t] = "norm" THEN "load_manifest"
                 ELSE IF phase[t] = "add_raw" THEN "add_norm"
                 ELSE "returned"]
  /\ step' = [step EXCEPT ![t] = IF phase[t] = "add_raw" THEN "acquire" ELSE "none"]
  /\ result' = [result EXCEPT ![t] =
                  IF phase'[t] = "returned" THEN Returns(cls[t]) ELSE @]
  /\ UNCHANGED <<py, loaded_msgs, loaded_srvs, typestring, subname, names, cls,
                 didLoad, before, convvars>>

\* lock.release(), the helper's return and what _get_class does with it.
LockRelease(t) ==
  /\ step[t] = "release"
  /\ IF subname[t] = "msg"
       THEN msgs_lock' = 0 /\ UNCHANGED srvs_lock
       ELSE srvs_lock' = 0 /\ UNCHANGED msgs_lock
  /\ \/ /\ phase[t] \in {"raw", "norm"}
        /\ cls[t] # None
        /\ phase' = [phase EXCEPT ![t] = "returned"]
        /\ step' = [step EXCEPT ![t] = "none"]
        /\ result' = [result EXCEPT ![t] = Returns(cls[t])]
     \/ /\ phase[t] = "raw"
        /\ cls[t] = None
        /\ phase' = [phase EXCEPT ![t] = "split"]
        /\ step' = [step EXCEPT ![t] = "none"]
        /\ UNCHANGED result
     \/ /\ phase[t] = "norm"
        /\ cls[t] = None
        /\ phase' = [phase EXCEPT ![t] = "load_manifest"]
        /\ step' = [step EXCEPT ![t] = "none"]
        /\ UNCHANGED result
     \/ /\ phase[t] = "add_raw"
        /\ phase' = [phase EXCEPT ![t] = "add_norm"]
        /\ step' = [step EXCEPT ![t] = "acquire"]
        /\ UNCHANGED result
     \/ /\ phase[t] = "add_norm"
        /\ phase' = [phase EXCEPT ![t] = "returned"]
        /\ step' = [step EXCEPT ![t] = "none"]
        /\ result' = [result EXCEPT ![t] = Returns(cls[t])]
  /\ UNCHANGED <<py, loaded_msgs, loaded_srvs, typestring, subname, names, cls,
                 didLoad, before, convvars>>

\* modname, classname = _splittype(typestring)
SplitType(t) ==
  /\ phase[t] = "split"
  /\ IF SplitOk(typestring[t])
       THEN /\ names' = [names EXCEPT ![t] = splits(typestring[t])]
            /\ phase' = [phase EXCEPT ![t] = "norm"]
            /\ step' = [step EXCEPT ![t] = "acquire"]
            /\ UNCHANGED result
       ELSE /\ phase' = [phase EXCEPT ![t] = "raised"]
            /\ result' = [result EXCEPT ![t] =
                            Raises(Raised("InvalidTypeStringException", 1, py))]
            /\ UNCHANGED <<names, step>>
  /\ UNCHANGED <<py, loaded_msgs, loaded_srvs, msgs_lock, srvs_lock, typestring,
                 subname, cls, didLoad, before, convvars>>

\* _load_class: roslib.launcher.load_manifest(modname)
LoadManifest(t) ==
  /\ phase[t] = "load_manifest"
  /\ didLoad' = [didLoad EXCEPT ![t] = TRUE]
  /\ IF names[t][1] \in Manifests
       THEN /\ phase' = [phase EXCEPT ![t] = "load_import"]
            /\ UNCHANGED result
       ELSE /\ phase' = [phase EXCEPT ![t] = "raised"]
            /\ result' = [result EXCEPT ![t] =
                            Raises(Raised("InvalidPackageException", 2, py))]
  /\ UNCHANGED <<py, loaded_msgs, loaded_srvs, msgs_lock, srvs_lock, step,
                 typestring, subname, names, cls, before, convvars>>

\* _load_class: pypkg = __import__('%s.%s' % (modname, subname))
ImportModule(t) ==
  /\ phase[t] = "load_import"
  /\ IF <<names[t][1], subname[t]>> \in Modules
       THEN /\ phase' = [phase EXCEPT ![t] = "load_getattr"]
            /\ UNCHANGED result
       ELSE /\ phase' = [phase EXCEPT ![t] = "raised"]
            /\ result' = [result EXCEPT ![t] =
                            Raises(Raised("InvalidModuleException", 3, py))]
  /\ UNCHANGED <<py, loaded_msgs, loaded_srvs, msgs_lock, srvs_lock, step,
                 typestring, subname, names, cls, didLoad, before, convvars>>

\* A loader that builds a new class object on every load.
_load_class_per_load(t) ==
  [mod |-> names[t][1], sub |-> subname[t], cls |-> names[t][2] \o <<"#", ToString(t)>>]

\* The class _load_class returns: the attribute of the imported submodule.
_load_class(t) == ClassObj(names[t][1], subname[t], names[t][2])

\* _load_class: return getattr(getattr(pypkg, subname), classname)
GetAttrClass(t) ==
  /\ phase[t] = "load_getattr"
  /\ IF <<names[t][1], subname[t], names[t][2]>> \in Classes
       THEN /\ cls' = [cls EXCEPT ![t] = _load_class(t)]
            /\ phase' = [phase EXCEPT ![t] = "add_raw"]
            /\ step' = [step EXCEPT ![t] = "acquire"]
            /\ UNCHANGED result
       ELSE /\ phase' = [phase EXCEPT ![t] = "raised"]
            /\ result' = [result EXCEPT ![t] =
                            Raises(Raised("InvalidClassException", 4, py))]
            /\ UNCHANGED <<cls, step>>
  /\ UNCHANGED <<py, loaded_msgs, loaded_srvs, msgs_lock, srvs_lock, typestring,
                 subname, names, didLoad, before, convvars>>

\* ----------------------------------------------------------------- values

(***************************************************************************)
(* A Python value: its runtime type k and, by type, a number n (bool, int, *)
(* long, float), text or bytes s (code points), attribute or key names ks  *)
(* with their values c (dict in iteration order, message instance in       *)
(* __slots__ order, Time/Duration as secs, nsecs), elements c (list,       *)
(* tuple), and the _type tag t of a message instance.                      *)
(***************************************************************************)
Val(k, n, s, ks, c, t) == [k |-> k, n |-> n, s |-> s, ks |-> ks, c |-> c, t |-> t]

NoneV == Val("NoneType", 0, <<>>, <<>>, <<>>, <<>>)
Bool(b) == Val("bool", IF b THEN 1 ELSE 0, <<>>, <<>>, <<>>, <<>>)
PyInt(n) == Val("int", n, <<>>, <<>>, <<>>, <<>>)
Long(n) == Val("long", n, <<>>, <<>>, <<>>, <<>>)
Float(n) == Val("float", n, <<>>, <<>>, <<>>, <<>>)
Str(s) == Val("str", 0, s, <<>>, <<>>, <<>>)
Unicode(s) == Val("unicode", 0, s, <<>>, <<>>, <<>>)
Bytes(s) == Val("bytes", 0, s, <<>>, <<>>, <<>>)
List(c) == Val("list", 0, <<>>, <<>>, c, <<>>)
Tuple(c) == Val("tuple", 0, <<>>, <<>>, c, <<>>)
Dict(ks, c) == Val("dict", 0, <<>>, ks, c, <<>>)
Time(secs, nsecs) == Val("Time", 0, <<>>, <<"secs", "nsecs">>, <<secs, nsecs>>, <<>>)
Duration(secs, nsecs) == Val("Duration", 0, <<>>, <<"secs", "nsecs">>, <<secs, nsecs>>, <<>>)
Obj(t, ks, c) == Val("obj", 0, <<>>, ks, c, t)

\* The position of name in a sequence of names, 0 when absent.
IndexOf(ks, name) ==
  IF \E i \in 1..Len(ks) : ks[i] = name
    THEN CHOOSE i \in 1..Len(ks) : ks[i] = name
    ELSE 0

HasName(x, name) == IndexOf(x.ks, name) # 0

\* getattr(x, name) / x[name]
getattr(x, name) == x.c[IndexOf(x.ks, name)]

\* setattr(x, name, value) on an object that has the attribute
setattr(x, name, value) == [x EXCEPT !.c[IndexOf(x.ks, name)] = value]

\* The byte string type of the interpreter: str on Python 2, bytes on Python 3.
ByteString(s, v) == IF v = 2 THEN Str(s) ELSE Bytes(s)

\* ------------------------------------------------------- the module's tables

type_map(name) ==
  CASE name = "bool" -> { <<"b","o","o","l">> }
    [] name = "int" -> { <<"i","n","t","8">>, <<"b","y","t","e">>, <<"u","i","n","t","8">>, <<"c","h","a","r">>,
                         <<"i","n","t","1","6">>, <<"u","i","n","t","1","6">>, <<"i","n","t","3","2">>, <<"u","i","n","t","3","2">>,
                         <<"i","n","t","6","4">>, <<"u","i","n","t","6","4">>, <<"f","l","o","a","t","3","2">>, <<"f","l","o","a","t","6","4">> }
    [] name = "float" -> { <<"f","l","o","a","t","3","2">>, <<"f","l","o","a","t","6","4">> }
    [] name = "str" -> { <<"s","t","r","i","n","g">> }
    [] name = "unicode" -> { <<"s","t","r","i","n","g">> }
    [] name = "long" -> { <<"u","i","n","t","6","4">> }

\* The names type_map has an entry for; type_map[other] raises KeyError.
type_map_keys == {"bool", "int", "float", "str", "unicode", "long"}

primitive_types == {"bool", "int", "float"}

\* [str, bytes]: on Python 2 bytes is str.
string_types(v) == IF v = 2 THEN {"str"} ELSE {"str", "bytes"}

list_types == {"list", "tuple"}

ros_time_types == { <<"t","i","m","e">>, <<"d","u","r","a","t","i","o","n">> }

ros_primitive_types ==
  { <<"b","o","o","l">>, <<"b","y","t","e">>, <<"c","h","a","r">>, <<"i","n","t","8">>,
    <<"u","i","n","t","8">>, <<"i","n","t","1","6">>, <<"u","i","n","t","1","6">>, <<"i","n","t","3","2">>,
    <<"u","i","n","t","3","2">>, <<"i","n","t","6","4">>, <<"u","i","n","t","6","4">>, <<"f","l","o","a","t","3","2">>,
    <<"f","l","o","a","t","6","4">>, <<"s","t","r","i","n","g">> }

ros_header_types == { <<"H","e","a","d","e","r">>, <<"s","t","d","_","m","s","g","s","/","H","e","a","d","e","r">>, <<"r","o","s","l","i","b","/","H","e","a","d","e","r">> }

ros_binary_types == { <<"u","i","n","t","8","[","]">>, <<"c","h","a","r","[","]">> }

\* Whether s holds a "]".
HasClose(s) == \E i \in 1..Len(s) : s[i] = "]"

\* s after its first "]".
AfterClose(s) == SubSeq(s, (CHOOSE i \in 1..Len(s) : s[i] = "]" /\ \A j \in 1..(i-1) : s[j] # "]") + 1, Len(s))

\* list_braces.sub("", rostype) with list_braces = \[[^\]]*\]
RECURSIVE list_braces_sub(_)
list_braces_sub(s) ==
  IF s = <<>> THEN <<>>
  ELSE IF Head(s) = "[" /\ HasClose(Tail(s)) THEN list_braces_sub(AfterClose(Tail(s)))
  ELSE <<Head(s)>> \o list_braces_sub(Tail(s))

\* ---------------------------------------------------------------- base64

\* The character of the standard alphabet for a 6-bit value.
B64Char(i) ==
  IF i < 26 THEN 65 + i
  ELSE IF i < 52 THEN 97 + (i - 26)
  ELSE IF i < 62 THEN 48 + (i - 52)
  ELSE IF i = 62 THEN 43 ELSE 47

\* The 6-bit value of a character, 64 for one outside the alphabet.
B64Value(ch) ==
  IF ch >= 65 /\ ch <= 90 THEN ch - 65
  ELSE IF ch >= 97 /\ ch <= 122 THEN ch - 97 + 26
  ELSE IF ch >= 48 /\ ch <= 57 THEN ch - 48 + 52
  ELSE IF ch = 43 THEN 62
  ELSE IF ch = 47 THEN 63
  ELSE 64

\* standard_b64encode on a byte string
RECURSIVE standard_b64encode(_)
standard_b64encode(b) ==
  IF Len(b) = 0 THEN <<>>
  ELSE IF Len(b) = 1 THEN
    << B64Char(b[1] \div 4), B64Char((b[1] % 4) * 16), 61, 61 >>
  ELSE IF Len(b) = 2 THEN
    << B64Char(b[1] \div 4), B64Char((b[1] % 4) * 16 + b[2] \div 16),
       B64Char((b[2] % 16) * 4), 61 >>
  ELSE
    << B64Char(b[1] \div 4), B64Char((b[1] % 4) * 16 + b[2] \div 16),
       B64Char((b[2] % 16) * 4 + b[3] \div 64), B64Char(b[3] % 64) >>
      \o standard_b64encode(SubSeq(b, 4, Len(b)))

\* binascii.a2b_base64, not strict: characters outside the alphabet are
\* skipped, a pad that completes a quad ends the input, and data left in an
\* incomplete quad is an error.  The state is the position in the quad, the
\* bits carried over, the pads seen in a row and the bytes so far.
RECURSIVE a2b_base64(_, _, _, _, _)
a2b_base64(s, quad_pos, leftchar, pads, acc) ==
  IF s = <<>> THEN [ok |-> quad_pos = 0, val |-> acc]
  ELSE LET ch == Head(s)
           d == B64Value(ch)
       IN IF ch = 61 THEN
            IF quad_pos >= 2 /\ quad_pos + pads + 1 >= 4
              THEN [ok |-> TRUE, val |-> acc]
              ELSE a2b_base64(Tail(s), quad_pos, leftchar, pads + 1, acc)
          ELSE IF d = 64 THEN a2b_base64(Tail(s), quad_pos, leftchar, pads, acc)
          ELSE IF quad_pos = 0 THEN a2b_base64(Tail(s), 1, d, 0, acc)
          ELSE IF quad_pos = 1 THEN
            a2b_base64(Tail(s), 2, d % 16, 0, Append(acc, leftchar * 4 + d \div 16))
          ELSE IF quad_pos = 2 THEN
            a2b_base64(Tail(s), 3, d % 4, 0, Append(acc, leftchar * 16 + d \div 4))
          ELSE a2b_base64(Tail(s), 0, 0, 0, Append(acc, leftchar * 64 + d))

IsAscii(s) == \A i \in 1..Len(s) : s[i] < 128

\* A decoder that rejects every character outside the alphabet.
standard_b64decode_strict(msg, v) ==
  IF v = 3 /\ msg.k = "str" /\ ~IsAscii(msg.s) THEN [ok |-> FALSE, val |-> <<>>]
  ELSE IF \E i \in 1..Len(msg.s) : msg.s[i] # 61 /\ B64Value(msg.s[i]) = 64
    THEN [ok |-> FALSE, val |-> <<>>]
  ELSE a2b_base64(msg.s, 0, 0, 0, <<>>)

\* standard_b64decode(msg) for msg in string_types: the bytes, or the
\* exception (Python 3 first encodes a str as ASCII).
standard_b64decode(msg, v) ==
  IF v = 3 /\ msg.k = "str" /\ ~IsAscii(msg.s) THEN [ok |-> FALSE, val |-> <<>>]
  ELSE a2b_base64(msg.s, 0, 0, 0, <<>>)

\* ------------------------------------------------------ the message classes

\* inst.__slots__ of the generated classes, by _type.
Slots(t) ==
  CASE t = <<"s","t","d","_","m","s","g","s","/","H","e","a","d","e","r">> -> <<"seq", "stamp", "frame_id">>
    [] t = <<"p","/","U">> -> <<"b", "n", "f", "w", "cs">>
    [] t = <<"p","/","T">> -> <<"header", "d", "xs", "us", "u", "ts">>
    [] OTHER -> <<>>

\* inst._slot_types of the generated classes, by _type.
SlotTypes(t) ==
  CASE t = <<"s","t","d","_","m","s","g","s","/","H","e","a","d","e","r">> -> << <<"u","i","n","t","3","2">>, <<"t","i","m","e">>, <<"s","t","r","i","n","g">> >>
    [] t = <<"p","/","U">> -> << <<"b","o","o","l">>, <<"u","i","n","t","6","4">>, <<"f","l","o","a","t","6","4">>, <<"d","u","r","a","t","i","o","n">>, <<"c","h","a","r","[","]">> >>
    [] t = <<"p","/","T">> -> << <<"s","t","d","_","m","s","g","s","/","H","e","a","d","e","r">>, <<"u","i","n","t","8","[","]">>, <<"i","n","t","3","2","[","]">>,
                         <<"p","/","U","[","]">>, <<"p","/","U">>, <<"t","i","m","e","[","]">> >>
    [] OTHER -> <<>>

\* dict(zip(inst.__slots__, inst._slot_types))[field_name]
inst_fields(inst, field_name) == SlotTypes(inst.t)[IndexOf(inst.ks, field_name)]

\* The value a generated class's constructor gives a field of a type, and
\* the instance it builds.
RECURSIVE DefaultField(_, _), Default(_, _)
DefaultField(rostype, v) ==
  IF rostype \in ros_binary_types THEN ByteString(<<>>, v)
  ELSE IF HasClose(rostype) THEN List(<<>>)
  ELSE IF rostype = <<"t","i","m","e">> THEN Time(PyInt(0), PyInt(0))
  ELSE IF rostype = <<"d","u","r","a","t","i","o","n">> THEN Duration(PyInt(0), PyInt(0))
  ELSE IF rostype = <<"b","o","o","l">> THEN Bool(FALSE)
  ELSE IF rostype = <<"s","t","r","i","n","g">> THEN Str(<<>>)
  ELSE IF rostype \in { <<"f","l","o","a","t","3","2">>, <<"f","l","o","a","t","6","4">> } THEN Float(0)
  ELSE IF rostype \in ros_primitive_types THEN PyInt(0)
  ELSE Default(rostype, v)

Default(t, v) ==
  Obj(t, Slots(t), [i \in 1..Len(Slots(t)) |-> DefaultField(SlotTypes(t)[i], v)])

\* The _type of the instances a class object builds.
TypeName(c) == c.mod \o <<"/">> \o c.cls

\* ------------------------------------------------- _get_class, sequentially

GotClass(c, cache) == [ok |-> TRUE, val |-> c, exc |-> "", cache |-> cache]
NoClass(e, cache) == [ok |-> FALSE, val |-> None, exc |-> e, cache |-> cache]

\* _load_class for a call that runs alone, followed by the two inserts.
LoadAndCache(ts, sub, cache, v) ==
  LET modname == splits(ts)[1]
      classname == splits(ts)[2]
  IN IF modname \notin Manifests
       THEN NoClass(Raised("InvalidPackageException", 2, v), cache)
     ELSE IF <<modname, sub>> \notin Modules
       THEN NoClass(Raised("InvalidModuleException", 3, v), cache)
     ELSE IF <<modname, sub, classname>> \notin Classes
       THEN NoClass(Raised("InvalidClassException", 4, v), cache)
     ELSE GotClass(ClassObj(modname, sub, classname),
                   _add_to_cache(_add_to_cache(cache, ts, ClassObj(modname, sub, classname)),
                                 norm_typestring(modname, classname),
                                 ClassObj(modname, sub, classname)))

\* _get_class run to its end with no other thread in the registry.
_get_class(ts, sub, cache, v) ==
  IF _get_from_cache(cache, ts) # None THEN GotClass(_get_from_cache(cache, ts), cache)
  ELSE IF ~SplitOk(ts) THEN NoClass(Raised("InvalidTypeStringException", 1, v), cache)
  ELSE IF _get_from_cache(cache, norm_typestring(splits(ts)[1], splits(ts)[2])) # None
    THEN GotClass(_get_from_cache(cache, norm_typestring(splits(ts)[1], splits(ts)[2])), cache)
  ELSE LoadAndCache(ts, sub, cache, v)

\* ------------------------------------------------------------ serializing

Gave(val) == [ok |-> TRUE, val |-> val, exc |-> ""]
Threw(e) == [ok |-> FALSE, val |-> NoneV, exc |-> e]

\* standard_b64encode(inst): the argument must be a byte string (Python 2
\* also takes ASCII unicode).
EncodeBinary(inst, v) ==
  IF v = 2 /\ inst.k = "str" THEN Gave(Str(standard_b64encode(inst.s)))
  ELSE IF v = 2 /\ inst.k = "unicode" THEN
    IF IsAscii(inst.s) THEN Gave(Str(standard_b64encode(inst.s)))
    ELSE Threw("UnicodeEncodeError")
  ELSE IF v = 3 /\ inst.k = "bytes" THEN Gave(Bytes(standard_b64encode(inst.s)))
  ELSE Threw("TypeError")

RECURSIVE _from_inst(_, _, _), FromElems(_, _, _, _, _), FromSlots(_, _, _, _)

\* [_from_inst(x, rostype) for x in inst], from element i on.
FromElems(elems, i, rostype, acc, v) ==
  IF i > Len(elems) THEN Gave(List(acc))
  ELSE LET r == _from_inst(elems[i], rostype, v)
       IN IF r.ok THEN FromElems(elems, i + 1, rostype, Append(acc, r.val), v) ELSE r

_from_list_inst(inst, rostype, v) ==
  IF Len(inst.c) = 0 THEN Gave(List(<<>>))
  ELSE IF list_braces_sub(rostype) \in ros_primitive_types THEN Gave(List(inst.c))
  ELSE FromElems(inst.c, 1, list_braces_sub(rostype), <<>>, v)

\* The loop of _from_object_inst from slot i on; acc is msg so far.
FromSlots(inst, i, acc, v) ==
  IF i > Len(inst.ks) \/ i > Len(SlotTypes(inst.t)) THEN Gave(acc)
  ELSE LET r == _from_inst(inst.c[i], SlotTypes(inst.t)[i], v)
       IN IF r.ok
            THEN FromSlots(inst, i + 1, Dict(Append(acc.ks, inst.ks[i]), Append(acc.c, r.val)), v)
            ELSE r

_from_object_inst(inst, rostype, v) ==
  IF inst.k # "obj" THEN Threw("AttributeError")
  ELSE FromSlots(inst, 1, Dict(<<>>, <<>>), v)

_from_inst(inst, rostype, v) ==
  IF rostype \in ros_binary_types THEN EncodeBinary(inst, v)
  ELSE IF rostype \in ros_time_types THEN
    IF HasName(inst, "secs") /\ HasName(inst, "nsecs")
      THEN Gave(Dict(<<"secs", "nsecs">>, <<getattr(inst, "secs"), getattr(inst, "nsecs")>>))
      ELSE Threw("AttributeError")
  ELSE IF rostype \in ros_primitive_types THEN Gave(inst)
  ELSE IF inst.k \in list_types THEN _from_list_inst(inst, rostype, v)
  ELSE _from_object_inst(inst, rostype, v)

\* An extract_values that raises the exception with its argument.
\* extract_values: only message instances have _type; the exception is
\* constructed without arguments.
extract_values(inst, v) ==
  IF inst.k # "obj" THEN Threw(Raised("InvalidMessageException", 0, v))
  ELSE _from_inst(inst, inst.t, v)

\* ---------------------------------------------------------- deserializing

(***************************************************************************)
(* What a _to_* call leaves: its return value val or the exception exc     *)
(* with the arguments it was built from (root, path, exp, found), the seed *)
(* object inst as the call left it (message and time instances are         *)
(* changed in place, also by a call that raises), and the class cache.     *)
(***************************************************************************)
Ok(val, seed, cache) ==
  [ok |-> TRUE, val |-> val, seed |-> seed, exc |-> "", root |-> <<>>,
   path |-> <<>>, exp |-> <<>>, found |-> "", cache |-> cache]
Fail(e, root, path, exp, found, seed, cache) ==
  [ok |-> FALSE, val |-> NoneV, seed |-> seed, exc |-> e, root |-> root,
   path |-> path, exp |-> exp, found |-> found, cache |-> cache]

\* repr() of one byte inside a bytes literal delimited by quote.
HexDigit(n) == IF n < 10 THEN 48 + n ELSE 97 + (n - 10)
ReprByte(b, quote) ==
  IF b = 92 THEN <<92, 92>>
  ELSE IF b = quote THEN <<92, b>>
  ELSE IF b = 9 THEN <<92, 116>>
  ELSE IF b = 10 THEN <<92, 110>>
  ELSE IF b = 13 THEN <<92, 114>>
  ELSE IF b < 32 \/ b >= 127 THEN <<92, 120, HexDigit(b \div 16), HexDigit(b % 16)>>
  ELSE <<b>>

RECURSIVE ReprBytes(_, _)
ReprBytes(b, quote) ==
  IF b = <<>> THEN <<>> ELSE ReprByte(Head(b), quote) \o ReprBytes(Tail(b), quote)

\* str(bytearray(b)): the bytes on Python 2, the repr text on Python 3.
StrOfByteArray(b, v) ==
  IF v = 2 THEN Str(b)
  ELSE LET quote == IF (\E i \in 1..Len(b) : b[i] = 39) /\ ~(\E i \in 1..Len(b) : b[i] = 34)
                      THEN 34 ELSE 39
       IN Str(<<98,121,116,101,97,114,114,97,121,40,98>> \o <<quote>> \o ReprBytes(b, IF quote = 39 THEN 39 ELSE 0)
              \o <<quote, 41>>)

IsByte(x) == x.k \in {"int", "long", "bool"} /\ x.n >= 0 /\ x.n <= 255

\* bytearray(msg) for msg outside string_types: the bytes, or an exception
\* (a sequence of bytes, a count of zero bytes, or a dict's keys).
ByteArrayOf(msg) ==
  IF msg.k \in {"list", "tuple"} THEN
    IF \A i \in 1..Len(msg.c) : IsByte(msg.c[i])
      THEN [ok |-> TRUE, val |-> [i \in 1..Len(msg.c) |-> msg.c[i].n]]
      ELSE [ok |-> FALSE, val |-> <<>>]
  ELSE IF msg.k \in {"int", "long", "bool"} THEN
    IF msg.n >= 0
      THEN [ok |-> TRUE, val |-> [i \in 1..msg.n |-> 0]]
      ELSE [ok |-> FALSE, val |-> <<>>]
  ELSE IF msg.k = "dict" /\ msg.ks = <<>> THEN [ok |-> TRUE, val |-> <<>>]
  ELSE [ok |-> FALSE, val |-> <<>>]

_to_binary_inst(msg, v) ==
  IF msg.k \in string_types(v) THEN
    IF standard_b64decode(msg, v).ok
      THEN ByteString(standard_b64decode(msg, v).val, v)
      ELSE msg
  ELSE IF ByteArrayOf(msg).ok
    THEN StrOfByteArray(ByteArrayOf(msg).val, v)
    ELSE msg

\* rospy.get_rostime() when the clock reads now.
get_rostime(now) == Time(PyInt(now), PyInt(now))

\* msg == "now": a unicode compares equal to a str on Python 2, a bytes
\* never does on Python 3.
IsNow(msg, v) ==
  /\ msg.s = <<110,111,119>>
  /\ \/ msg.k = "str"
     \/ msg.k = "unicode" /\ v = 2

\* A round of _to_time_inst's loop that copies a field only if its value is
\* a number.
CopyTimeField_numeric(msg, inst, field) ==
  IF msg.k = "dict" /\ HasName(msg, field)
       /\ getattr(msg, field).k \in {"bool", "int", "long", "float"}
    THEN setattr(inst, field, getattr(msg, field))
  ELSE inst

\* One round of _to_time_inst's loop: for a msg that is not a dict either
\* `field in msg` is false or it or msg[field] raises TypeError, which the
\* loop swallows; for a dict that has the field, its value is assigned
\* unchecked.
CopyTimeField(msg, inst, field) ==
  IF msg.k = "dict" /\ HasName(msg, field) THEN setattr(inst, field, getattr(msg, field))
  ELSE inst

BlankTime(rostype) ==
  IF rostype = <<"t","i","m","e">> THEN Time(PyInt(0), PyInt(0)) ELSE Duration(PyInt(0), PyInt(0))

\* _to_time_inst: the value returned; inst itself is changed unless the
\* value is the clock's.
_to_time_inst(msg, rostype, inst, now, v) ==
  IF rostype = <<"t","i","m","e">> /\ IsNow(msg, v) THEN get_rostime(now)
  ELSE CopyTimeField(msg,
         CopyTimeField(msg, IF inst = NoneV THEN BlankTime(rostype) ELSE inst, "secs"),
         "nsecs")

\* An encoding that keeps every character.
AllChars(s) == s

\* msg.encode("ascii", "ignore")
AsciiOnly(s) == SelectSeq(s, LAMBDA ch : ch < 128)

_to_primitive_inst(msg, rostype, roottype, stack, v) ==
  IF msg.k \in primitive_types /\ rostype \in type_map(msg.k) THEN Ok(msg, NoneV, EmptyCache)
  ELSE IF msg.k \in string_types(v) /\ msg.k \notin type_map_keys
    THEN Fail("KeyError", <<>>, <<>>, <<>>, "", NoneV, EmptyCache)
  ELSE IF msg.k \in string_types(v) /\ rostype \in type_map(msg.k) THEN
    IF v = 3 THEN Ok(Bytes(AsciiOnly(msg.s)), NoneV, EmptyCache)
    ELSE IF IsAscii(msg.s) THEN Ok(msg, NoneV, EmptyCache)
    ELSE Fail("UnicodeDecodeError", <<>>, <<>>, <<>>, "", NoneV, EmptyCache)
  ELSE Fail(Raised("FieldTypeMismatchException", 4, v), roottype, stack, rostype, msg.k,
            NoneV, EmptyCache)

RECURSIVE _to_inst(_, _, _, _, _, _, _, _), ToElems(_, _, _, _, _, _, _, _, _),
          ToFields(_, _, _, _, _, _, _, _)

\* [_to_inst(x, rostype, roottype, None, stack) for x in msg], from element i on.
ToElems(elems, i, rostype, roottype, stack, acc, cache, now, v) ==
  IF i > Len(elems) THEN Ok(List(acc), NoneV, cache)
  ELSE LET r == _to_inst(elems[i], rostype, roottype, NoneV, stack, cache, now, v)
       IN IF r.ok
            THEN ToElems(elems, i + 1, rostype, roottype, stack, Append(acc, r.val),
                         r.cache, now, v)
            ELSE r

_to_list_inst(msg, rostype, roottype, inst, stack, cache, now, v) ==
  IF msg.k \notin list_types
    THEN Fail(Raised("FieldTypeMismatchException", 4, v), roottype, stack, rostype, msg.k,
              inst, cache)
  ELSE IF Len(msg.c) = 0 THEN Ok(List(<<>>), inst, cache)
  ELSE [ToElems(msg.c, 1, list_braces_sub(rostype), roottype, stack, <<>>, cache, now, v)
          EXCEPT !.seed = inst]

\* A loop body that gives every field a new instance instead of its value.
ToFieldsNoSeed(msg, i, roottype, inst, stack, cache, now, v) ==
  IF i > Len(msg.ks) THEN Ok(inst, inst, cache)
  ELSE IF ~HasName(inst, msg.ks[i])
    THEN Fail(Raised("NonexistentFieldException", 2, v), roottype, Append(stack, msg.ks[i]),
              <<>>, "", inst, cache)
  ELSE LET field_name == msg.ks[i]
           r == _to_inst(msg.c[i], inst_fields(inst, field_name), roottype,
                         DefaultField(inst_fields(inst, field_name), v),
                         Append(stack, field_name), cache, now, v)
       IN IF r.ok
            THEN ToFields(msg, i + 1, roottype, setattr(inst, field_name, r.val), stack,
                          r.cache, now, v)
            ELSE [r EXCEPT !.seed = inst]

\* A loop body that passes over a key the instance has no field for.
ToFieldsSkipUnknown(msg, i, roottype, inst, stack, cache, now, v) ==
  IF i > Len(msg.ks) THEN Ok(inst, inst, cache)
  ELSE IF ~HasName(inst, msg.ks[i])
    THEN ToFields(msg, i + 1, roottype, inst, stack, cache, now, v)
  ELSE LET field_name == msg.ks[i]
           r == _to_inst(msg.c[i], inst_fields(inst, field_name), roottype,
                         getattr(inst, field_name), Append(stack, field_name), cache, now, v)
       IN IF r.ok
            THEN ToFields(msg, i + 1, roottype, setattr(inst, field_name, r.val), stack,
                          r.cache, now, v)
            ELSE [r EXCEPT !.seed = setattr(inst, field_name, r.seed)]

\* A loop that appends every field name to the one stack it was given
\* (field_stack = stack; stack.append(field_name)), so that the names of the
\* keys gone through stay on it.
ToFieldsSharedStack(msg, i, roottype, inst, stack, cache, now, v) ==
  IF i > Len(msg.ks) THEN Ok(inst, inst, cache)
  ELSE IF ~HasName(inst, msg.ks[i])
    THEN Fail(Raised("NonexistentFieldException", 2, v), roottype, Append(stack, msg.ks[i]),
              <<>>, "", inst, cache)
  ELSE LET field_name == msg.ks[i]
           r == _to_inst(msg.c[i], inst_fields(inst, field_name), roottype,
                         getattr(inst, field_name), Append(stack, field_name), cache, now, v)
       IN IF r.ok
            THEN ToFields(msg, i + 1, roottype, setattr(inst, field_name, r.val),
                          Append(stack, field_name), r.cache, now, v)
            ELSE [r EXCEPT !.seed = setattr(inst, field_name, r.seed)]

\* The loop of _to_object_inst from key i of msg on.
ToFields(msg, i, roottype, inst, stack, cache, now, v) ==
  IF i > Len(msg.ks) THEN Ok(inst, inst, cache)
  ELSE IF ~HasName(inst, msg.ks[i])
    THEN Fail(Raised("NonexistentFieldException", 2, v), roottype, Append(stack, msg.ks[i]),
              <<>>, "", inst, cache)
  ELSE LET field_name == msg.ks[i]
           r == _to_inst(msg.c[i], inst_fields(inst, field_name), roottype,
                         getattr(inst, field_name), Append(stack, field_name), cache, now, v)
       IN IF r.ok
            THEN ToFields(msg, i + 1, roottype, setattr(inst, field_name, r.val), stack,
                          r.cache, now, v)
            ELSE [r EXCEPT !.seed = setattr(inst, field_name, r.seed)]

\* A record deserializer that leaves the stamp of a header to the input.
_to_object_inst_unstamped(msg, rostype, roottype, inst, stack, cache, now, v) ==
  IF msg.k # "dict"
    THEN Fail(Raised("FieldTypeMismatchException", 4, v), roottype, stack, rostype, msg.k,
              inst, cache)
  ELSE ToFields(msg, 1, roottype, inst, stack, cache, now, v)

\* A record deserializer that works on a copy and assigns nothing when a
\* key fails.
_to_object_inst_atomic(msg, rostype, roottype, inst, stack, cache, now, v) ==
  IF msg.k # "dict"
    THEN Fail(Raised("FieldTypeMismatchException", 4, v), roottype, stack, rostype, msg.k,
              inst, cache)
  ELSE LET r == ToFields(msg, 1, roottype,
                         IF rostype \in ros_header_types
                           THEN setattr(inst, "stamp", get_rostime(now)) ELSE inst,
                         stack, cache, now, v)
       IN IF r.ok THEN r ELSE [r EXCEPT !.seed = inst]

\* _to_object_inst: the header's stamp is set first, then the keys of msg
\* are applied in iteration order.
_to_object_inst(msg, rostype, roottype, inst, stack, cache, now, v) ==
  IF msg.k # "dict"
    THEN Fail(Raised("FieldTypeMismatchException", 4, v), roottype, stack, rostype, msg.k,
              inst, cache)
  ELSE IF rostype \in ros_header_types /\ ~HasName(inst, "stamp")
    THEN Fail("AttributeError", <<>>, <<>>, <<>>, "", inst, cache)
  ELSE ToFields(msg, 1, roottype,
                IF rostype \in ros_header_types
                  THEN setattr(inst, "stamp", get_rostime(now)) ELSE inst,
                stack, cache, now, v)

_to_inst(msg, rostype, roottype, inst, stack, cache, now, v) ==
  IF rostype \in ros_binary_types THEN Ok(_to_binary_inst(msg, v), inst, cache)
  ELSE IF rostype \in ros_time_types THEN
    Ok(_to_time_inst(msg, rostype, inst, now, v),
       IF rostype = <<"t","i","m","e">> /\ IsNow(msg, v) THEN inst
       ELSE _to_time_inst(msg, rostype, inst, now, v),
       cache)
  ELSE IF rostype \in ros_primitive_types THEN
    [_to_primitive_inst(msg, rostype, roottype, stack, v) EXCEPT !.seed = inst, !.cache = cache]
  ELSE IF inst # NoneV /\ inst.k \in list_types THEN
    _to_list_inst(msg, rostype, roottype, inst, stack, cache, now, v)
  ELSE IF inst = NoneV THEN
    LET g == _get_class(rostype, "msg", cache, v)
    IN IF g.ok
         THEN [_to_object_inst(msg, rostype, roottype, Default(TypeName(g.val), v), stack,
                               g.cache, now, v) EXCEPT !.seed = NoneV]
         ELSE Fail(g.exc, <<>>, <<>>, <<>>, "", NoneV, g.cache)
  ELSE _to_object_inst(msg, rostype, roottype, inst, stack, cache, now, v)

\* populate_instance(msg, inst): _to_inst(msg, inst._type, inst._type, inst)
\* with stack left to its default, the one list object every such call shares.
populate_instance(msg, inst, cache, now, v) ==
  _to_inst(msg, inst.t, inst.t, inst, default_stack, cache, now, v)

\* ------------------------------------------------- the registry, concurrent

Init ==
  /\ py \in {2, 3}
  /\ loaded_msgs = EmptyCache
  /\ loaded_srvs = EmptyCache
  /\ msgs_lock = 0
  /\ srvs_lock = 0
  /\ phase = [t \in Threads |-> "idle"]
  /\ step = [t \in Threads |-> "none"]
  /\ typestring = [t \in Threads |-> <<>>]
  /\ subname = [t \in Threads |-> "msg"]
  /\ names = [t \in Threads |-> << <<>>, <<>> >>]
  /\ cls = [t \in Threads |-> None]
  /\ result = [t \in Threads |-> NoResult]
  /\ didLoad = [t \in Threads |-> FALSE]
  /\ before = [t \in Threads |-> {}]
  /\ request = NoneV /\ target = NoneV /\ prior = NoneV /\ rec = NoneV
  /\ field_rostype = <<>> /\ clock = 0 /\ out = NoneV /\ op = "none"
  /\ default_stack = <<>> /\ earlier = NoneV

Next ==
  \E t \in Threads :
    \/ CallResolve(t)
    \/ LockAcquire(t)
    \/ CacheRead(t)
    \/ CacheWrite(t)
    \/ LockRelease(t)
    \/ SplitType(t)
    \/ LoadManifest(t)
    \/ ImportModule(t)
    \/ GetAttrClass(t)

Spec == Init /\ [][Next]_vars

\* The steps of thread t inside a call of _get_class.
ThreadStep(t) ==
  \/ LockAcquire(t)
  \/ CacheRead(t)
  \/ CacheWrite(t)
  \/ LockRelease(t)
  \/ SplitType(t)
  \/ LoadManifest(t)
  \/ ImportModule(t)
  \/ GetAttrClass(t)

\* The registry with threads that keep being scheduled: a thread
\* whose next step stays possible takes it, so every load step ends and a
\* thread waiting for a lock that stays free acquires it.
\* The calls made under fair scheduling: a class known under two strings,
\* the same name as a service, a string that does not split and a package
\* whose submodule cannot be imported.
FairRequests ==
  { << <<"p","/","T">>, "msg" >>, << <<"/","p","/","/","T","/">>, "msg" >>,
    << <<"p","/","T">>, "srv" >>, << <<"p">>, "msg" >>, << <<"q","/","T">>, "msg" >> }

NextFair == \E t \in Threads : CallWith(t, FairRequests) \/ ThreadStep(t)

SpecFair == Init /\ [][NextFair]_vars /\ \A t \in Threads : WF_vars(ThreadStep(t))

\* ------------------------------------------------------------- the inputs

\* dict(zip(...)) / setattr over a whole tree: inst with each key of d set.
RECURSIVE Overlay(_, _, _)
Overlay(inst, d, i) ==
  IF i > Len(d.ks) THEN inst ELSE Overlay(setattr(inst, d.ks[i], d.c[i]), d, i + 1)

\* Values a caller may send for a field of a type that is no record: ones
\* the type accepts and ones it does not.
LeafRequests(rostype, v) ==
  IF rostype = <<"b","o","o","l">> THEN {Bool(TRUE), PyInt(1)}
  ELSE IF rostype \in { <<"u","i","n","t","3","2">>, <<"u","i","n","t","6","4">> } THEN
    {PyInt(7), Str(<<97>>)} \cup (IF v = 2 THEN {Long(8)} ELSE {})
  ELSE IF rostype = <<"f","l","o","a","t","6","4">> THEN {Float(2), PyInt(7), Str(<<97>>)}
  ELSE IF rostype = <<"s","t","r","i","n","g">> THEN
    {Str(<<97>>), Str(<<233>>), PyInt(7)}
      \cup (IF v = 2 THEN {Unicode(<<97>>)} ELSE {Bytes(<<97>>)})
  ELSE IF rostype = <<"t","i","m","e">> THEN
    { Dict(<<"secs", "nsecs">>, <<PyInt(5), PyInt(6)>>), Dict(<<"secs">>, <<PyInt(5)>>),
      Dict(<<"nsecs">>, <<Str(<<97>>)>>), Str(<<110,111,119>>), PyInt(7) }
  ELSE IF rostype = <<"d","u","r","a","t","i","o","n">> THEN
    { Dict(<<"nsecs", "secs">>, <<PyInt(6), PyInt(5)>>), Str(<<110,111,119>>) }
  ELSE IF rostype = <<"u","i","n","t","8","[","]">> THEN
    { Str(<<89,87,73,61>>), Str(<<97>>), List(<<PyInt(1), PyInt(2)>>), List(<<>>) }
  ELSE IF rostype = <<"c","h","a","r","[","]">> THEN { Str(<<89,81,61,61>>), List(<<>>) }
  ELSE IF rostype = <<"i","n","t","3","2","[","]">> THEN
    { List(<<>>), List(<<PyInt(7)>>), List(<<Str(<<97>>)>>), PyInt(7) }
  ELSE IF rostype = <<"t","i","m","e","[","]">> THEN
    { List(<<>>), List(<<Dict(<<"secs">>, <<PyInt(5)>>)>>), List(<<Str(<<110,111,119>>)>>) }
  ELSE {}

\* Values a message instance may hold in a field of a type that is no record.
LeafFields(rostype, v) ==
  IF rostype = <<"b","o","o","l">> THEN {Bool(TRUE)}
  ELSE IF rostype = <<"u","i","n","t","3","2">> THEN {PyInt(7)}
  ELSE IF rostype = <<"u","i","n","t","6","4">> THEN {PyInt(7)} \cup (IF v = 2 THEN {Long(9)} ELSE {})
  ELSE IF rostype = <<"f","l","o","a","t","6","4">> THEN {Float(2)}
  ELSE IF rostype = <<"s","t","r","i","n","g">> THEN {Str(<<97>>), Str(<<233>>)}
  ELSE IF rostype = <<"t","i","m","e">> THEN {Time(PyInt(5), PyInt(6))}
  ELSE IF rostype = <<"d","u","r","a","t","i","o","n">> THEN {Duration(PyInt(5), PyInt(6))}
  ELSE IF rostype = <<"u","i","n","t","8","[","]">> THEN
    { ByteString(<<97,98>>, v), ByteString(<<255>>, v), List(<<>>), List(<<PyInt(1)>>) }
  ELSE IF rostype = <<"c","h","a","r","[","]">> THEN { ByteString(<<97>>, v), List(<<>>) }
  ELSE IF rostype = <<"i","n","t","3","2","[","]">> THEN { List(<<PyInt(7)>>), Tuple(<<PyInt(7)>>), Tuple(<<>>) }
  ELSE IF rostype = <<"t","i","m","e","[","]">> THEN { List(<<Time(PyInt(1), PyInt(2))>>) }
  ELSE {}

IsRecordType(rostype) == Slots(rostype) # <<>>
IsRecordList(rostype) == HasClose(rostype) /\ IsRecordType(list_braces_sub(rostype))

(***************************************************************************)
(* Trees(t, n, used, mode, v): the mappings over the fields of class t     *)
(* that hold at most n keys in all, nested mappings included, each with    *)
(* the number of keys it holds.  In mode "msg" a tree is an input of       *)
(* populate_instance: its keys come in every order and may include the     *)
(* unknown key "foo".  In mode "rec" it lists the fields of an instance    *)
(* that differ from the constructor's, in slot order.                      *)
(***************************************************************************)
RECURSIVE Trees(_, _, _, _, _), Candidates(_, _, _, _, _)

Candidates(t, name, n, mode, v) ==
  LET rostype == IF name = "foo" THEN <<>> ELSE SlotTypes(t)[IndexOf(Slots(t), name)]
      elem == list_braces_sub(rostype)
  IN IF name = "foo" THEN { <<PyInt(1), 0>> }
     ELSE IF IsRecordType(rostype) THEN
       IF mode = "msg"
         THEN { <<PyInt(7), 0>> } \cup Trees(rostype, n, {}, mode, v)
         ELSE { <<Overlay(Default(rostype, v), d[1], 1), d[2]>> :
                  d \in Trees(rostype, n, {}, mode, v) \ { <<Dict(<<>>, <<>>), 0>> } }
     ELSE IF IsRecordList(rostype) THEN
       IF mode = "msg"
         THEN { <<List(<<>>), 0>>, <<PyInt(7), 0>> }
                \cup { <<List(<<d[1]>>), d[2]>> : d \in Trees(elem, n, {}, mode, v) }
         ELSE { <<List(<<Overlay(Default(elem, v), d[1], 1)>>), d[2]>> :
                  d \in Trees(elem, n, {}, mode, v) }
     ELSE { <<x, 0>> : x \in (IF mode = "msg" THEN LeafRequests(rostype, v)
                                              ELSE LeafFields(rostype, v)) }

Trees(t, n, used, mode, v) ==
  LET fields == { Slots(t)[i] : i \in 1..Len(Slots(t)) }
                 \cup (IF mode = "msg" THEN {"foo"} ELSE {})
      after(name) == \A u \in used : IndexOf(Slots(t), u) < IndexOf(Slots(t), name)
      avail == { name \in fields \ used : mode = "msg" \/ after(name) }
  IN { <<Dict(<<>>, <<>>), 0>> }
     \cup (IF n = 0 THEN {}
           ELSE UNION { UNION { { << Dict(<<name>> \o rest[1].ks, <<x[1]>> \o rest[1].c),
                                     1 + x[2] + rest[2] >> :
                                    rest \in Trees(t, n - 1 - x[2], used \cup {name}, mode, v) } :
                                x \in Candidates(t, name, n - 1, mode, v) } :
                        name \in avail })

RootTypes == { <<"s","t","d","_","m","s","g","s","/","H","e","a","d","e","r">>, <<"p","/","U">>, <<"p","/","T">> }

\* An instance whose fields all differ from the constructor's and from
\* every value the inputs hold.
RECURSIVE Filled(_, _), FilledField(_, _)
FilledField(rostype, v) ==
  IF rostype \in ros_binary_types THEN ByteString(<<122>>, v)
  ELSE IF IsRecordList(rostype) THEN List(<<Filled(list_braces_sub(rostype), v)>>)
  ELSE IF rostype = <<"t","i","m","e","[","]">> THEN List(<<Time(PyInt(3), PyInt(4))>>)
  ELSE IF HasClose(rostype) THEN List(<<PyInt(3)>>)
  ELSE IF rostype = <<"t","i","m","e">> THEN Time(PyInt(3), PyInt(4))
  ELSE IF rostype = <<"d","u","r","a","t","i","o","n">> THEN Duration(PyInt(3), PyInt(4))
  ELSE IF rostype = <<"b","o","o","l">> THEN Bool(FALSE)
  ELSE IF rostype = <<"s","t","r","i","n","g">> THEN Str(<<122>>)
  ELSE IF rostype \in { <<"f","l","o","a","t","3","2">>, <<"f","l","o","a","t","6","4">> } THEN Float(3)
  ELSE IF rostype \in ros_primitive_types THEN PyInt(3)
  ELSE Filled(rostype, v)

Filled(t, v) ==
  Obj(t, Slots(t), [i \in 1..Len(Slots(t)) |-> FilledField(SlotTypes(t)[i], v)])

\* The instances populate_instance is given.
Targets(v) == { Default(t, v) : t \in RootTypes } \cup { Filled(t, v) : t \in RootTypes }

\* The msg values populate_instance is given for an instance of class t.
RequestsFor(t, v) ==
  { d[1] : d \in Trees(t, MaxKeys, {}, "msg", v) } \cup { PyInt(7), List(<<>>), NoneV }

\* The message instances extract_values is given.
Records(v) ==
  UNION { { Overlay(Default(t, v), d[1], 1) : d \in Trees(t, MaxKeys, {}, "rec", v) } :
          t \in RootTypes }

\* Values without a _type that extract_values may be given.
Untyped == { NoneV, PyInt(5), Str(<<97>>), List(<<>>), Dict(<<"b">>, <<Bool(TRUE)>>),
             Time(PyInt(5), PyInt(6)) }

\* ------------------------------------------------- the conversion, one call

NoOut == [Ok(NoneV, NoneV, EmptyCache) EXCEPT !.exc = "none"]

RegistryIdle ==
  /\ loaded_srvs = EmptyCache
  /\ msgs_lock = 0
  /\ srvs_lock = 0
  /\ phase = [t \in Threads |-> "idle"]
  /\ step = [t \in Threads |-> "none"]
  /\ typestring = [t \in Threads |-> <<>>]
  /\ subname = [t \in Threads |-> "msg"]
  /\ names = [t \in Threads |-> << <<>>, <<>> >>]
  /\ cls = [t \in Threads |-> None]
  /\ result = [t \in Threads |-> NoResult]
  /\ didLoad = [t \in Threads |-> FALSE]
  /\ before = [t \in Threads |-> {}]

InitConv ==
  /\ py \in {2, 3}
  /\ loaded_msgs = EmptyCache
  /\ RegistryIdle
  /\ clock = ClockStart
  /\ field_rostype = <<>>
  /\ default_stack = <<>>
  /\ earlier = NoOut
  /\ out = NoOut
  /\ op = "none"
  /\ \/ /\ target \in Targets(py)
        /\ request \in RequestsFor(target.t, py)
        /\ rec = NoneV
     \/ /\ rec \in Records(py) \cup Untyped
        /\ target = NoneV
        /\ request = NoneV
  /\ prior = target

\* The clock advances between calls; a call reads it as one value, however
\* often it calls rospy.get_rostime().
Tick ==
  /\ op = "none"
  /\ clock < ClockStart + MaxTicks
  /\ clock' = clock + 1
  /\ UNCHANGED <<py, loaded_msgs, regvars, field_rostype, default_stack, earlier,
                 request, target, prior, rec, out, op>>

\* populate_instance(request, target): target is changed in place, and a
\* class resolved for a list element is cached.
PopulateInstance ==
  /\ op = "none"
  /\ target # NoneV
  /\ out' = populate_instance(request, target, loaded_msgs, clock, py)
  /\ target' = out'.seed
  /\ loaded_msgs' = out'.cache
  /\ op' = "populate"
  /\ UNCHANGED <<py, regvars, field_rostype, default_stack, earlier, request, prior,
                 rec, clock>>

\* extract_values(rec)
ExtractValues ==
  /\ op = "none"
  /\ target = NoneV
  /\ out' = [Ok(extract_values(rec, py).val, NoneV, loaded_msgs)
               EXCEPT !.ok = extract_values(rec, py).ok, !.exc = extract_values(rec, py).exc]
  /\ op' = "extract"
  /\ UNCHANGED <<py, loaded_msgs, regvars, field_rostype, default_stack, earlier,
                 request, target, prior, rec, clock>>

\* populate_instance(extract_values(rec), type(rec)())
PopulateExtracted ==
  /\ op = "extract"
  /\ out.ok
  /\ request' = out.val
  /\ prior' = Default(rec.t, py)
  /\ out' = populate_instance(out.val, Default(rec.t, py), loaded_msgs, clock, py)
  /\ target' = out'.seed
  /\ loaded_msgs' = out'.cache
  /\ op' = "roundtrip"
  /\ UNCHANGED <<py, regvars, field_rostype, default_stack, earlier, rec, clock>>

NextConv ==
  \/ Tick
  \/ PopulateInstance
  \/ ExtractValues
  \/ PopulateExtracted

SpecConv == InitConv /\ [][NextConv]_vars

\* --------------------------------------------- conversion, call after call

\* Calls of populate_instance made before the one observed: one that aborts
\* on a field of a nested record, one that aborts on an unknown key of a
\* nested record, one that returns after resolving the class of a list's
\* elements, and one that returns for a header.
EarlierCalls(v) ==
  { << Dict(<<"u">>, << Dict(<<"b", "n">>, <<Bool(TRUE), Str(<<97>>)>>) >>),
       Default(<<"p","/","T">>, v) >>,
    << Dict(<<"header">>, << Dict(<<"x">>, <<PyInt(1)>>) >>),
       Default(<<"p","/","T">>, v) >>,
    << Dict(<<"us">>, << List(<< Dict(<<>>, <<>>) >>) >>),
       Default(<<"p","/","T">>, v) >>,
    << Dict(<<"seq">>, <<PyInt(7)>>),
       Default(<<"s","t","d","_","m","s","g","s","/","H","e","a","d","e","r">>, v) >> }

InitCalls ==
  /\ py \in {2, 3}
  /\ loaded_msgs = EmptyCache
  /\ RegistryIdle
  /\ clock = ClockStart
  /\ field_rostype = <<>>
  /\ default_stack = <<>>
  /\ earlier = NoOut
  /\ out = NoOut
  /\ op = "none"
  /\ target \in Targets(py)
  /\ request \in RequestsFor(target.t, py)
  /\ rec = NoneV
  /\ prior = target

\* populate_instance(msg, inst) on an instance of its own: a class it
\* resolves stays cached; the default stack is the operand of
\* stack + [field_name] only, which builds the callee's list anew, and
\* no statement appends to it.
EarlierCall ==
  /\ op = "none"
  /\ \E e \in EarlierCalls(py) :
       /\ earlier' = populate_instance(e[1], e[2], loaded_msgs, clock, py)
       /\ loaded_msgs' = earlier'.cache
  /\ UNCHANGED <<py, regvars, field_rostype, default_stack, request, target, prior, rec,
                 clock, out, op>>

NextCalls == EarlierCall \/ PopulateInstance

SpecCalls == InitCalls /\ [][NextCalls]_vars

\* ------------------------------------------- byte-array fields, one value

\* The byte strings a uint8[] or char[] field holds: all of at most
\* MaxBytes bytes out of ByteValues.
ByteValues == {0, 97, 255}
ByteSeqs == UNION { [1..n -> ByteValues] : n \in 0..MaxBytes }

\* The characters of the texts given for such a field: two of the
\* alphabet, the pad, one ASCII character and one other character outside
\* the alphabet.
TextChars == {89, 81, 61, 33, 233}
Texts == UNION { [1..n -> TextChars] : n \in 0..MaxText }

\* The kinds of text the interpreter has.
TextKinds(v) == IF v = 2 THEN {"str", "unicode"} ELSE {"str", "bytes"}

InitBinary ==
  /\ py \in {2, 3}
  /\ loaded_msgs = EmptyCache
  /\ RegistryIdle
  /\ clock = ClockStart
  /\ field_rostype \in ros_binary_types
  /\ default_stack = <<>>
  /\ earlier = NoOut
  /\ out = NoOut
  /\ op = "none"
  /\ target = NoneV
  /\ prior = NoneV
  /\ \/ /\ rec \in { ByteString(b, py) : b \in ByteSeqs }
        /\ request = NoneV
     \/ /\ request \in { [Str(s) EXCEPT !.k = kind] : s \in Texts, kind \in TextKinds(py) }
        /\ rec = NoneV

\* _from_inst(rec, rostype) of a byte-array field
SerializeBytes ==
  /\ op = "none"
  /\ rec # NoneV
  /\ out' = [Ok(_from_inst(rec, field_rostype, py).val, NoneV, loaded_msgs)
               EXCEPT !.ok = _from_inst(rec, field_rostype, py).ok,
                      !.exc = _from_inst(rec, field_rostype, py).exc]
  /\ op' = "serialized"
  /\ UNCHANGED <<py, loaded_msgs, regvars, field_rostype, default_stack, earlier,
                 request, target, prior, rec, clock>>

\* _to_inst(S, rostype, ...) of what _from_inst returned, into the field
\* of a new instance.
DeserializeSerialized ==
  /\ op = "serialized"
  /\ out.ok
  /\ request' = out.val
  /\ out' = _to_inst(out.val, field_rostype, <<"p","/","T">>,
                     DefaultField(field_rostype, py), <<"d">>, loaded_msgs, clock, py)
  /\ op' = "restored"
  /\ UNCHANGED <<py, loaded_msgs, regvars, field_rostype, default_stack, earlier,
                 target, prior, rec, clock>>

\* _to_inst(text, rostype, ...) into the field of a new instance.
DeserializeText ==
  /\ op = "none"
  /\ request # NoneV
  /\ out' = _to_inst(request, field_rostype, <<"p","/","T">>,
                     DefaultField(field_rostype, py), <<"d">>, loaded_msgs, clock, py)
  /\ op' = "text"
  /\ UNCHANGED <<py, loaded_msgs, regvars, field_rostype, default_stack, earlier,
                 request, target, prior, rec, clock>>

NextBinary ==
  \/ SerializeBytes
  \/ DeserializeSerialized
  \/ DeserializeText

SpecBinary == InitBinary /\ [][NextBinary]_vars

\* ---------------------------------------------- primitive fields, one value

\* One value of every kind the interpreter has: None, bool, int, long
\* (Python 2), float, the kinds of text, list, tuple and dict.
PrimitiveRequests(v) ==
  { NoneV, Bool(TRUE), PyInt(7), Float(2), Str(<<97>>), Str(<<233>>),
    List(<<>>), List(<<PyInt(7)>>), Tuple(<<>>), Dict(<<>>, <<>>) }
  \cup (IF v = 2 THEN {Long(8), Unicode(<<97>>)} ELSE {Bytes(<<97>>)})

\* The stack _to_object_inst passes for the field n of the field u.
PrimitiveStack == <<"u", "n">>

InitPrimitive ==
  /\ py \in {2, 3}
  /\ loaded_msgs = EmptyCache
  /\ RegistryIdle
  /\ clock = ClockStart
  /\ field_rostype \in ros_primitive_types
  /\ default_stack = <<>>
  /\ earlier = NoOut
  /\ out = NoOut
  /\ op = "none"
  /\ target = NoneV
  /\ prior = NoneV
  /\ rec = NoneV
  /\ request \in PrimitiveRequests(py)

\* _to_inst(request, field_rostype, "p/T", field_inst, ["u", "n"])
DeserializePrimitive ==
  /\ op = "none"
  /\ out' = _to_inst(request, field_rostype, <<"p","/","T">>, DefaultField(field_rostype, py),
                     PrimitiveStack, loaded_msgs, clock, py)
  /\ op' = "primitive"
  /\ UNCHANGED <<py, loaded_msgs, regvars, field_rostype, default_stack, earlier,
                 request, target, prior, rec, clock>>

NextPrimitive == DeserializePrimitive

SpecPrimitive == InitPrimitive /\ [][NextPrimitive]_vars

\* --------------------------------------- time and duration fields, one value

\* What a time or duration field is given: mappings with and without secs
\* and nsecs, holding numbers and other values, and values of other kinds.
TimeRequests(v) ==
  { Dict(<<"secs", "nsecs">>, <<PyInt(1), PyInt(2)>>),
    Dict(<<"nsecs", "secs">>, <<Float(2), NoneV>>),
    Dict(<<"secs">>, <<PyInt(1)>>),
    Dict(<<"secs">>, <<Str(<<97>>)>>),
    Dict(<<"nsecs">>, <<Str(<<97>>)>>),
    Dict(<<"nsecs">>, <<List(<<>>)>>),
    Dict(<<"x">>, <<PyInt(1)>>),
    Dict(<<>>, <<>>),
    Str(<<110,111,119>>), Str(<<115,101,99,115>>), Str(<<>>),
    PyInt(7), NoneV, List(<<>>), List(<<Str(<<115,101,99,115>>)>>) }
  \cup (IF v = 2 THEN {Unicode(<<110,111,119>>)} ELSE {Bytes(<<110,111,119>>)})

\* The instance of the field: the one the target holds, or None for an
\* element of a list.
TimeInsts(rostype) ==
  { NoneV,
    IF rostype = <<"t","i","m","e">> THEN Time(PyInt(5), PyInt(6))
                                     ELSE Duration(PyInt(5), PyInt(6)) }

InitTime ==
  /\ py \in {2, 3}
  /\ loaded_msgs = EmptyCache
  /\ RegistryIdle
  /\ clock = ClockStart
  /\ field_rostype \in ros_time_types
  /\ default_stack = <<>>
  /\ earlier = NoOut
  /\ out = NoOut
  /\ op = "none"
  /\ target \in TimeInsts(field_rostype)
  /\ prior = target
  /\ rec = NoneV
  /\ request \in TimeRequests(py)

\* _to_inst(request, field_rostype, "p/T", target, ["ts"]): the instance
\* given is changed in place.
DeserializeTime ==
  /\ op = "none"
  /\ out' = _to_inst(request, field_rostype, <<"p","/","T">>, target, <<"ts">>,
                     loaded_msgs, clock, py)
  /\ target' = IF target = NoneV THEN NoneV ELSE out'.seed
  /\ op' = "time"
  /\ UNCHANGED <<py, loaded_msgs, regvars, field_rostype, default_stack, earlier,
                 request, prior, rec, clock>>

NextTime == Tick \/ DeserializeTime

SpecTime == InitTime /\ [][NextTime]_vars

\* ------------------------------------------------------------ the claims

Returned(t) == phase[t] = "returned"
Malformed(ts) == Len(splits(ts)) # 2
Moved(t) == <<phase[t], step[t]>> # <<phase'[t], step'[t]>>

\* C1: all calls of the same resolver on the same type string that return,
\* return the same class, whatever the interleaving of their lookups, loads
\* and inserts.
C1_SameDescriptor ==
  \A t, u \in Threads :
    (/\ Returned(t) /\ Returned(u)
     /\ typestring[t] = typestring[u]
     /\ subname[t] = subname[u])
    => result[t].val = result[u].val

\* Two overlapping calls on the same string both loaded (cold cache) and returned.
C1_Witness ==
  \E t, u \in Threads :
    /\ t # u
    /\ Returned(t) /\ Returned(u)
    /\ typestring[t] = typestring[u]
    /\ subname[t] = subname[u]
    /\ didLoad[t] /\ didLoad[u]
    /\ t \notin before[u] /\ u \notin before[t]

\* One call ran after the other had ended, and no third call has begun.
Sequential(t, u) ==
  /\ t # u
  /\ Ended(t) /\ Ended(u)
  /\ t \in before[u]
  /\ \A w \in Threads \ {t, u} : phase[w] = "idle"

\* C2: _get_msg_class("/p//T/") and _get_msg_class("p/T"), one after the
\* other in either order from an empty cache, both return the same class,
\* the cache then holds it under "p/T", and the second call does not load.
C2_Normalization ==
  \A t, u \in Threads :
    (/\ Sequential(t, u)
     /\ {typestring[t], typestring[u]} = { <<"/","p","/","/","T","/">>, <<"p","/","T">> }
     /\ subname[t] = "msg" /\ subname[u] = "msg")
    => /\ Returned(t) /\ Returned(u)
       /\ result[t].val = result[u].val
       /\ result[t].val # None
       /\ <<"p","/","T">> \in DOMAIN loaded_msgs
       /\ loaded_msgs[<<"p","/","T">>] = result[t].val
       /\ ~didLoad[u]

\* "p/T" was resolved first, then "/p//T/" was answered from the cache.
C2_Witness ==
  \E t, u \in Threads :
    /\ Sequential(t, u)
    /\ typestring[t] = <<"p","/","T">>
    /\ typestring[u] = <<"/","p","/","/","T","/">>
    /\ subname[t] = "msg" /\ subname[u] = "msg"
    /\ Returned(u)

\* C6: a call whose type string does not split into exactly two non-empty
\* segments never enters the load or the inserts, ends raising
\* InvalidTypeStringException, and none of its steps changes either cache.
C6_MalformedRaises ==
  /\ [](\A t \in Threads :
          (phase[t] # "idle" /\ Malformed(typestring[t]))
          => /\ phase[t] \in {"raw", "split", "raised"}
             /\ ~didLoad[t]
             /\ (Ended(t) => result[t] = Raises("InvalidTypeStringException")))
  /\ [][\A t \in Threads :
          (Moved(t) /\ Malformed(typestring'[t]))
          => UNCHANGED <<loaded_msgs, loaded_srvs>>]_vars

\* A malformed call has ended while a class is cached.
C6_Witness ==
  \E t \in Threads :
    /\ Malformed(typestring[t])
    /\ phase[t] = "raised"
    /\ DOMAIN loaded_msgs # {}

\* ------------------------------------------ the claims of the conversion
Populated == op = "populate"
Extracted == op = "extract"
RoundTripped == op = "roundtrip"

\* The header-type records a completed call has deserialized, each with the
\* mapping it was given: the target itself, and the header field of a p/T
\* target whose mapping names it.
HeadersDeserialized ==
  (IF target.t \in ros_header_types THEN { [after |-> target, m |-> request] } ELSE {})
  \cup (IF target.t = <<"p","/","T">> /\ HasName(request, "header")
          THEN { [after |-> getattr(target, "header"), m |-> getattr(request, "header")] }
          ELSE {})

\* The part of a stamp (secs or nsecs) the input gives, the clock's where
\* the input gives none.
StampPart(m, part, now) ==
  IF HasName(m, "stamp") /\ getattr(m, "stamp").k = "dict" /\ HasName(getattr(m, "stamp"), part)
    THEN getattr(getattr(m, "stamp"), part)
    ELSE PyInt(now)

\* C3 (as the code has it): a header-type record that populate_instance has
\* deserialized from a mapping holds, in each of secs and nsecs of its
\* stamp, the value the mapping's "stamp" mapping gives for it, and the
\* clock's reading during the call where the mapping gives none (no "stamp"
\* key, a "stamp" that is no mapping such as "now", or a mapping without
\* that part).
C3_StampFromInputOrClock ==
  (Populated /\ out.ok) =>
    \A h \in HeadersDeserialized :
      getattr(h.after, "stamp") =
        Time(StampPart(h.m, "secs", clock), StampPart(h.m, "nsecs", clock))

\* A header was deserialized from a mapping whose stamp gives secs only,
\* after the clock had advanced: secs is the input's, nsecs the clock's.
C3_Witness ==
  /\ Populated /\ out.ok
  /\ clock = ClockStart + 1
  /\ target.t \in ros_header_types
  /\ HasName(request, "stamp")
  /\ getattr(request, "stamp") = Dict(<<"secs">>, <<PyInt(5)>>)
  /\ getattr(target, "stamp") = Time(PyInt(5), PyInt(clock))

\* C3 as claimed: the stamp of every header-type record deserialized is the
\* clock's reading, whatever the mapping holds.
C3_StampAlwaysClock ==
  (Populated /\ out.ok) =>
    \A h \in HeadersDeserialized : getattr(h.after, "stamp") = get_rostime(clock)

\* R as a round trip gives it back: a tuple comes back as a list, and on
\* Python 3 a str comes back as the bytes of its ASCII characters.
RECURSIVE Normal(_, _)
Normal(x, v) ==
  IF x.k = "tuple" \/ x.k = "list" THEN List([i \in 1..Len(x.c) |-> Normal(x.c[i], v)])
  ELSE IF x.k = "str" /\ v = 3 THEN Bytes(SelectSeq(x.s, LAMBDA ch : ch \in 0..127))
  ELSE [x EXCEPT !.c = [i \in 1..Len(x.c) |-> Normal(x.c[i], v)]]

\* x, held in a field of type rostype, holds a long, or a non-ASCII
\* character in a field of type string.
RECURSIVE HoldsLongOrNonAscii(_, _)
HoldsLongOrNonAscii(x, rostype) ==
  IF x.k = "obj"
    THEN \E i \in 1..Len(x.c) : HoldsLongOrNonAscii(x.c[i], SlotTypes(x.t)[i])
  ELSE IF x.k \in list_types
    THEN \E i \in 1..Len(x.c) : HoldsLongOrNonAscii(x.c[i], list_braces_sub(rostype))
  ELSE \/ x.k = "long"
       \/ rostype = <<"s","t","r","i","n","g">> /\ \E i \in 1..Len(x.s) : x.s[i] > 127

\* x, held in a field of type rostype, holds a list or tuple in a field of
\* type uint8[] or char[].
RECURSIVE HoldsListAsBytes(_, _)
HoldsListAsBytes(x, rostype) ==
  IF rostype \in ros_binary_types THEN x.k \in list_types
  ELSE IF x.k = "obj"
    THEN \E i \in 1..Len(x.c) : HoldsListAsBytes(x.c[i], SlotTypes(x.t)[i])
  ELSE IF x.k \in list_types
    THEN \E i \in 1..Len(x.c) : HoldsListAsBytes(x.c[i], list_braces_sub(rostype))
  ELSE FALSE

RECURSIVE EqualButStamps(_, _, _)
EqualButStamps(x, y, now) ==
  /\ [x EXCEPT !.c = <<>>] = [y EXCEPT !.c = <<>>]
  /\ Len(x.c) = Len(y.c)
  /\ \A i \in 1..Len(x.c) :
       IF x.k = "obj" /\ x.t \in ros_header_types /\ x.ks[i] = "stamp"
         THEN y.c[i] = get_rostime(now)
         ELSE EqualButStamps(x.c[i], y.c[i], now)

NotFound == [found |-> FALSE, path |-> <<>>, cut |-> NoneV]

(***************************************************************************)
(* FirstUnknown(m, t, i): the first key, from key i of the mapping m on    *)
(* and in iteration order through the mappings given for fields of record  *)
(* type and for the elements of fields of record list type, that is no     *)
(* field of the record it is given for (m is given for a record of class   *)
(* t); with the path of field names that leads to it and the part of m     *)
(* that comes before it.                                                   *)
(***************************************************************************)
RECURSIVE FirstUnknown(_, _, _), FirstUnknownElem(_, _, _)
FirstUnknown(m, t, i) ==
  IF i > Len(m.ks) THEN NotFound
  ELSE LET name == m.ks[i]
           x == m.c[i]
           ft == SlotTypes(t)[IndexOf(Slots(t), name)]
           inner == IF IsRecordType(ft) /\ x.k = "dict" THEN FirstUnknown(x, ft, 1)
                    ELSE IF IsRecordList(ft) /\ x.k \in list_types
                      THEN FirstUnknownElem(x, list_braces_sub(ft), 1)
                    ELSE NotFound
       IN IF IndexOf(Slots(t), name) = 0
            THEN [found |-> TRUE, path |-> <<name>>,
                  cut |-> Dict(SubSeq(m.ks, 1, i - 1), SubSeq(m.c, 1, i - 1))]
          ELSE IF inner.found
            THEN [found |-> TRUE, path |-> <<name>> \o inner.path,
                  cut |-> Dict(SubSeq(m.ks, 1, i), Append(SubSeq(m.c, 1, i - 1), inner.cut))]
          ELSE FirstUnknown(m, t, i + 1)

FirstUnknownElem(l, t, j) ==
  IF j > Len(l.c) THEN NotFound
  ELSE LET inner == IF l.c[j].k = "dict" THEN FirstUnknown(l.c[j], t, 1) ELSE NotFound
       IN IF inner.found
            THEN [found |-> TRUE, path |-> inner.path,
                  cut |-> List(Append(SubSeq(l.c, 1, j - 1), inner.cut))]
            ELSE FirstUnknownElem(l, t, j + 1)

\* C5 (as the code has it): populate_instance raises
\* NonexistentFieldException exactly when the mapping has an unknown key
\* and all that comes before the first one, in iteration order, deserializes
\* without an error; the exception then carries the target's type and the
\* names of the enclosing fields followed by that key (a list adds no name),
\* and the target has gained no field.
C5_FirstUnknownKey ==
  (Populated /\ request.k = "dict") =>
    LET u == FirstUnknown(request, prior.t, 1)
    IN /\ (out.exc = "NonexistentFieldException")
            <=> (u.found /\ populate_instance(u.cut, prior, EmptyCache, clock, py).ok)
       /\ (out.exc = "NonexistentFieldException")
            => (~out.ok /\ out.root = prior.t /\ out.path = u.path)
       /\ target.ks = prior.ks

\* The unknown key "foo" of a mapping given for a nested record or for an
\* element of a list field has been reported with its path.
C5_Witness ==
  /\ Populated
  /\ out.exc = "NonexistentFieldException"
  /\ Len(out.path) = 2
  /\ out.path[2] = "foo"
  /\ out.root = <<"p","/","T">>

\* C5 as claimed: every mapping that holds an unknown key makes
\* populate_instance raise NonexistentFieldException with the path to it.
C5_AnyUnknownKey ==
  (Populated /\ request.k = "dict" /\ FirstUnknown(request, prior.t, 1).found) =>
    /\ out.exc = "NonexistentFieldException"
    /\ out.path = FirstUnknown(request, prior.t, 1).path

\* C7 as claimed: extract_values of a value that has no _type raises
\* InvalidMessageException.
C7_InvalidMessage ==
  (Extracted /\ rec.k # "obj") => out.exc = "InvalidMessageException"

Aborted == Populated /\ out.exc \in {"FieldTypeMismatchException", "NonexistentFieldException"}

(***************************************************************************)
(* LeftAsAborted(b, a, m, path, stamped): what a call that raised at path  *)
(* has left of a record, b before the call and a after it, given the       *)
(* mapping m.  A field whose key comes before the failing key path[1]      *)
(* holds what deserializing that key alone into b gives it; the field of   *)
(* the failing key holds what it held, a record there left as the rest of  *)
(* the path tells; every other field holds what it held, but, if stamped,  *)
(* the stamp of a header-type record, which holds the clock's reading.     *)
(***************************************************************************)
RECURSIVE LeftAsAborted(_, _, _, _, _)
LeftAsAborted(b, a, m, path, stamped) ==
  /\ a.t = b.t /\ a.ks = b.ks
  /\ \A i \in 1..Len(b.ks) :
       LET name == b.ks[i]
           pos == IndexOf(m.ks, name)
           failing == IndexOf(m.ks, path[1])
       IN IF pos # 0 /\ pos < failing
            THEN a.c[i] = populate_instance(Dict(<<name>>, <<m.c[pos]>>), b, EmptyCache,
                                            clock, py).seed.c[i]
          ELSE IF pos # 0 /\ pos = failing /\ Len(path) > 1 /\ IsRecordType(SlotTypes(b.t)[i])
            THEN LeftAsAborted(b.c[i], a.c[i], m.c[pos], Tail(path), stamped)
          ELSE IF stamped /\ b.t \in ros_header_types /\ name = "stamp"
            THEN a.c[i] = get_rostime(clock)
          ELSE a.c[i] = b.c[i]

\* C8 (as the code has it): when populate_instance raises
\* FieldTypeMismatchException or NonexistentFieldException at a key, every
\* field assigned before that key, in the target and in the nested records
\* on the path, keeps its new value, and every other field keeps its prior
\* value, except the stamp of each header-type record the call had begun
\* to deserialize, which holds the clock's reading unless a "stamp" key
\* came before the failing key; a target given something that is no
\* mapping is left as it was.
C8_NoRollback ==
  Aborted =>
    IF out.path = <<>> \/ request.k # "dict" THEN target = prior
    ELSE LeftAsAborted(prior, target, request, out.path, TRUE)

\* A header was given a valid seq and then an ill-typed frame_id: seq is
\* the new value, frame_id the prior one, and the stamp the clock's reading.
C8_Witness ==
  /\ Aborted
  /\ prior.t \in ros_header_types
  /\ out.path = <<"frame_id">>
  /\ request.ks = <<"seq", "frame_id">>
  /\ getattr(target, "seq") = PyInt(7)
  /\ getattr(prior, "seq") = PyInt(3)
  /\ getattr(target, "frame_id") = getattr(prior, "frame_id")
  /\ getattr(prior, "stamp") = Time(PyInt(3), PyInt(4))
  /\ getattr(target, "stamp") = get_rostime(clock)

\* C8 as claimed: after such a failure every field not yet reached keeps
\* its prior value, the stamp of a header-type record included.
C8_UnreachedKeepPrior ==
  Aborted =>
    IF out.path = <<>> \/ request.k # "dict" THEN target = prior
    ELSE LeftAsAborted(prior, target, request, out.path, FALSE)

(***************************************************************************)
(* Kept(b, a, m): every field of the record (b before the call, a after    *)
(* it) that the mapping m does not name holds what it held, but for the    *)
(* stamp of a header-type record; so do, for a field m names, the fields   *)
(* of its record that the mapping given for it does not name, and the      *)
(* parts of its time or duration that the mapping given for it does not    *)
(* name.                                                                   *)
(***************************************************************************)
RECURSIVE Kept(_, _, _)
Kept(b, a, m) ==
  /\ a.t = b.t /\ a.ks = b.ks
  /\ \A i \in 1..Len(b.ks) :
       LET name == b.ks[i]
           ft == SlotTypes(b.t)[i]
           isStamp == b.t \in ros_header_types /\ name = "stamp"
       IN IF ~HasName(m, name) THEN isStamp \/ a.c[i] = b.c[i]
          ELSE IF IsRecordType(ft) THEN Kept(b.c[i], a.c[i], getattr(m, name))
          ELSE IF ft \in ros_time_types /\ getattr(m, name).k = "dict" /\ ~isStamp
            THEN \A part \in {"secs", "nsecs"} :
                   HasName(getattr(m, name), part)
                     \/ getattr(a.c[i], part) = getattr(b.c[i], part)
          ELSE TRUE

\* C9: after populate_instance has returned, every field of the target, at
\* every nesting level, that the corresponding input mapping does not name
\* holds the value it had before the call, apart from the stamp of
\* header-type records.
C9_PartialUpdate ==
  (Populated /\ out.ok) => Kept(prior, target, request)

\* A p/T whose fields all differ from the constructor's was given a mapping
\* that names one field of its nested record u, and nothing else.
C9_Witness ==
  /\ Populated /\ out.ok
  /\ prior = Filled(<<"p","/","T">>, py)
  /\ request.ks = <<"u">>
  /\ getattr(request, "u").ks = <<"b">>
  /\ target # prior
  /\ getattr(getattr(target, "u"), "n") = PyInt(3)

\* x is an empty sequence: a list, a tuple or a string without elements.
IsEmptySeq(x) == x.k \in {"list", "tuple", "str", "unicode", "bytes"} /\ x.c = <<>> /\ x.s = <<>>

\* Every list or tuple that x, held in a field of type rostype, holds in a
\* field of type uint8[] or char[] is empty.
RECURSIVE NoBytesButEmpty(_, _)
NoBytesButEmpty(x, rostype) ==
  IF rostype \in ros_binary_types THEN x.k \in list_types => x.c = <<>>
  ELSE IF x.k = "obj"
    THEN \A i \in 1..Len(x.c) : NoBytesButEmpty(x.c[i], SlotTypes(x.t)[i])
  ELSE IF x.k \in list_types
    THEN \A i \in 1..Len(x.c) : NoBytesButEmpty(x.c[i], list_braces_sub(rostype))
  ELSE TRUE

\* C10 as claimed: a sequence field of any element type that the mapping
\* gives as [] is empty after populate_instance has returned, and
\* extract_values of a record whose byte fields hold no list but the empty
\* one returns, with an empty sequence for each sequence field that is
\* empty.
C10_EmptySequence ==
  /\ (Populated /\ out.ok) =>
       \A i \in 1..Len(target.ks) :
         (/\ HasClose(SlotTypes(target.t)[i])
          /\ HasName(request, target.ks[i])
          /\ getattr(request, target.ks[i]) = List(<<>>))
         => IsEmptySeq(target.c[i])
  /\ (Extracted /\ rec.k = "obj" /\ NoBytesButEmpty(rec, rec.t)) =>
       /\ out.ok
       /\ \A i \in 1..Len(rec.ks) :
            (HasClose(SlotTypes(rec.t)[i]) /\ IsEmptySeq(rec.c[i]))
            => IsEmptySeq(out.val.c[i])

\* ----------------------------------------- the claims of byte-array fields

\* s without the characters that are neither of the alphabet nor the pad.
Strip(s) == SelectSeq(s, LAMBDA ch : ch = 61 \/ B64Value(ch) # 64)

\* s is base64 as RFC 4648 has it: whole groups of four characters of the
\* alphabet, the last group ending in at most two pads.
WellFormed(s) ==
  /\ Len(s) % 4 = 0
  /\ \A i \in 1..Len(s) :
       IF s[i] = 61 THEN i >= Len(s) - 1 /\ s[Len(s)] = 61 ELSE B64Value(s[i]) # 64

\* The number of bytes a well-formed s stands for.
DecodedLen(s) == 3 * (Len(s) \div 4) - Cardinality({ i \in 1..Len(s) : s[i] = 61 })

\* The text is of a kind _to_binary_inst hands to the decoder, and one the
\* decoder takes (Python 3 takes no str with a non-ASCII character).
Decoded(x, v) ==
  /\ x.k \in string_types(v)
  /\ (v = 3 /\ x.k = "str") => IsAscii(x.s)

\* C11 (as the code has it): serializing the byte string B of a uint8[] or
\* char[] field returns base64 text S, and deserializing S returns B.
\* Deserializing a text never raises and returns the text itself or a byte
\* string.  A well-formed text of a decoded kind (str, and bytes on
\* Python 3) returns as many bytes as it stands for; characters outside
\* the alphabet do not make a text pass through: they are ignored, so a
\* text that is well formed without them returns what that text returns.
\* The text itself is returned for a text of another kind (unicode on
\* Python 2), a Python 3 str with a non-ASCII character, and a text
\* without pads whose characters of the alphabet do not fill groups of four.
C11_BinaryLeniency ==
  /\ op = "serialized" => (out.ok /\ out.val.k = rec.k)
  /\ op = "restored" => (out.ok /\ out.val = rec)
  /\ op = "text" =>
       /\ out.ok
       /\ out.val = request \/ out.val.k = ByteString(<<>>, py).k
       /\ (Decoded(request, py) /\ WellFormed(request.s))
            => /\ out.val.k = ByteString(<<>>, py).k
               /\ Len(out.val.s) = DecodedLen(request.s)
       /\ (Decoded(request, py) /\ WellFormed(Strip(request.s)))
            => out.val = _to_binary_inst([request EXCEPT !.s = Strip(request.s)], py)
       /\ (\/ ~Decoded(request, py)
           \/ /\ \A i \in 1..Len(request.s) : request.s[i] # 61
              /\ Len(Strip(request.s)) % 4 # 0)
            => out.val = request

\* The text "YQ!==", not well formed for its "!", was deserialized to the
\* byte "a".
C11_Witness ==
  /\ op = "text"
  /\ request.s = <<89,81,33,61,61>>
  /\ ~WellFormed(request.s)
  /\ out.val = ByteString(<<97>>, py)
  /\ out.val # request

\* C11 as claimed: every text that is not well-formed base64 is returned
\* unchanged.
C11_InvalidTextUnchanged ==
  (op = "text" /\ ~WellFormed(request.s)) => (out.ok /\ out.val = request)

\* ------------------------------------------ the claims of primitive fields

FloatTypes == { <<"f","l","o","a","t","3","2">>, <<"f","l","o","a","t","6","4">> }
IntegerTypes == ros_primitive_types \ (FloatTypes \cup { <<"b","o","o","l">>, <<"s","t","r","i","n","g">> })

\* The compatibility table: the kinds of value a schema type takes.
InTable(x, rostype) ==
  \/ x.k = "bool" /\ rostype = <<"b","o","o","l">>
  \/ x.k \in {"int", "long"} /\ rostype \in IntegerTypes \cup FloatTypes
  \/ x.k = "float" /\ rostype \in FloatTypes
  \/ x.k \in {"str", "unicode"} /\ rostype = <<"s","t","r","i","n","g">>

\* C12 as claimed: deserializing a value for a field of a primitive type
\* returns exactly when the value's kind and the type are in the table, and
\* raises FieldTypeMismatchException with the root type, the field path,
\* the schema type and the value's kind otherwise.
C12_CompatibilityTable ==
  op = "primitive" =>
    IF InTable(request, field_rostype) THEN out.ok
    ELSE /\ out.exc = "FieldTypeMismatchException"
         /\ out.root = <<"p","/","T">>
         /\ out.path = PrimitiveStack
         /\ out.exp = field_rostype
         /\ out.found = request.k

\* ---------------------------------------- further claims of the registry

\* The exception class the load of a call must end with, by the first stage
\* that fails: manifest, submodule import, class lookup.
FailingStage(t) ==
  IF names[t][1] \notin Manifests THEN "InvalidPackageException"
  ELSE IF <<names[t][1], subname[t]>> \notin Modules THEN "InvalidModuleException"
  ELSE IF <<names[t][1], subname[t], names[t][2]>> \notin Classes THEN "InvalidClassException"
  ELSE "none"

\* C13 as claimed: a call whose load fails ends raising the exception of
\* the first stage that fails (InvalidPackageException for the manifest,
\* InvalidModuleException for the import, InvalidClassException for the
\* lookup), leaves its cache without the raw and the normalized key, and a
\* later call on the same string enters the load again.
C13_LoadStages ==
  \A t \in Threads :
    (phase[t] = "raised" /\ didLoad[t]) =>
      /\ result[t] = Raises(FailingStage(t))
      /\ typestring[t] \notin DOMAIN CacheOf(subname[t])
      /\ norm_typestring(names[t][1], names[t][2]) \notin DOMAIN CacheOf(subname[t])
      /\ \A u \in Threads :
           (/\ t \in before[u] /\ Ended(u)
            /\ typestring[u] = typestring[t] /\ subname[u] = subname[t])
           => didLoad[u]

\* The thread is between two cache helpers of _get_class: normalizing the
\* type string or in one of the three stages of the load.
Loading(t) == phase[t] \in {"load_manifest", "load_import", "load_getattr"}
Unlocked(t) == phase[t] = "split" \/ Loading(t)

Holds(t) == msgs_lock = t \/ srvs_lock = t

\* C14: a thread that normalizes or loads holds no cache lock; a thread
\* that holds a lock holds the one of its own cache and is at the single
\* map read or map write of a helper or at the release that follows it; so
\* a thread that is about to acquire a lock finds it free whenever the
\* other threads are outside the helpers, however long they load.
C14_LoadUnlocked ==
  \A t \in Threads :
    /\ Unlocked(t) => ~Holds(t)
    /\ Holds(t) => /\ step[t] \in {"read", "write", "release"}
                   /\ LockOf(subname[t]) = t
                   /\ msgs_lock # srvs_lock
    /\ (step[t] = "acquire" /\ \A u \in Threads \ {t} : step[u] \in {"none", "acquire"})
         => LockOf(subname[t]) = 0

\* One thread reads the map under the lock while another thread's load of
\* the same cache is in progress.
C14_Witness ==
  \E t, u \in Threads :
    /\ Loading(t) /\ subname[u] = subname[t]
    /\ step[u] = "read" /\ LockOf(subname[u]) = u

\* The path a returned call took through _get_class.
RawHit(t) == phase[t] = "returned" /\ ~didLoad[t] /\ names[t] = << <<>>, <<>> >>
NormHit(t) == phase[t] = "returned" /\ ~didLoad[t] /\ names[t] # << <<>>, <<>> >>
Loaded(t) == phase[t] = "returned" /\ didLoad[t]

\* The normalized form of the string a call was given.
NormOf(t) == norm_typestring(splits(typestring[t])[1], splits(typestring[t])[2])

Maps(t, key) ==
  /\ key \in DOMAIN CacheOf(subname[t])
  /\ CacheOf(subname[t])[key] = result[t].val

\* C15 as claimed: once a call has returned a class, its cache maps the
\* string it was given and the normalized form to that class, whichever
\* path the call took.
C15_BothKeys ==
  \A t \in Threads :
    phase[t] = "returned" => Maps(t, typestring[t]) /\ Maps(t, NormOf(t))

\* C15, amended: a call that loaded has both keys mapped to the class it
\* returned; a call that hit on the normalized key has that key mapped to
\* the class, its raw string being left out of the cache; a call that hit on
\* the raw key has that key mapped to the class, and the normalized key
\* either mapped to it too or about to be inserted by the call that loaded.
C15_KeysByPath ==
  \A t \in Threads :
    /\ Loaded(t) => Maps(t, typestring[t]) /\ Maps(t, NormOf(t))
    /\ NormHit(t) =>
         /\ Maps(t, NormOf(t))
         /\ typestring[t] \in DOMAIN CacheOf(subname[t]) => Maps(t, typestring[t])
    /\ RawHit(t) =>
         /\ Maps(t, typestring[t])
         /\ \/ Maps(t, NormOf(t))
            \/ \E u \in Threads :
                 /\ phase[u] = "add_norm" /\ subname[u] = subname[t]
                 /\ KeyOf(u) = NormOf(t) /\ cls[u] = result[t].val

\* A call has returned on a hit of the normalized key and its raw string
\* is in no cache entry.
C15_Witness ==
  \E t \in Threads :
    /\ NormHit(t)
    /\ typestring[t] \notin DOMAIN CacheOf(subname[t])
    /\ typestring[t] # NormOf(t)

\* ------------------------------------- the claims of time and duration fields

\* The instance _to_time_inst copies into: the one given or a blank one.
TimeBase == IF prior = NoneV THEN BlankTime(field_rostype) ELSE prior

Numeric(x) == x.k \in {"bool", "int", "long", "float"}

ClockTaken == field_rostype = <<"t","i","m","e">> /\ IsNow(request, py)

\* C16 as claimed: deserializing for a time or duration field never raises;
\* "now" yields the clock's value for the time type only; otherwise secs
\* and nsecs are copied from a mapping only when present and numeric, and
\* keep their prior values in every other case.
C16_WellTypedOnly ==
  op = "time" =>
    /\ out.ok
    /\ IF ClockTaken THEN out.val = get_rostime(clock)
       ELSE \A f \in {"secs", "nsecs"} :
              getattr(out.val, f) =
                IF request.k = "dict" /\ HasName(request, f) /\ Numeric(getattr(request, f))
                  THEN getattr(request, f)
                  ELSE getattr(TimeBase, f)

\* C16, amended: deserializing for a time or duration field never raises;
\* "now" yields the clock's value for the time type only and leaves the
\* instance given as it was; otherwise secs and nsecs are copied from a
\* mapping whenever present, whatever the kind of their values, into the
\* instance given, and keep their prior values when the mapping lacks them
\* or the input is no mapping.
C16_TimeLeniency ==
  op = "time" =>
    /\ out.ok
    /\ IF ClockTaken THEN out.val = get_rostime(clock) /\ target = prior
       ELSE /\ \A f \in {"secs", "nsecs"} :
                 getattr(out.val, f) =
                   IF request.k = "dict" /\ HasName(request, f)
                     THEN getattr(request, f)
                     ELSE getattr(TimeBase, f)
            /\ prior # NoneV => target = out.val

\* A mapping whose secs or nsecs is no number has been deserialized and the
\* field holds that value.
C16_Witness ==
  /\ op = "time" /\ out.ok /\ request.k = "dict"
  /\ \E f \in {"secs", "nsecs"} :
       /\ HasName(request, f) /\ ~Numeric(getattr(request, f))
       /\ getattr(out.val, f) = getattr(request, f)
       /\ prior # NoneV /\ getattr(target, f) # getattr(prior, f)

\* ------------------------------- the claims of the registry, call order

\* The calls t and u are given strings of one normalized form for one cache.
SameClassName(t, u) ==
  /\ subname[t] = subname[u]
  /\ SplitOk(typestring[t]) /\ SplitOk(typestring[u])
  /\ NormOf(t) = NormOf(u)

\* u had returned a class when t began.
ReturnedBefore(u, t) == u \in before[t] /\ phase[u] = "returned"

NoLoad(t, u) ==
  /\ ~didLoad[t] /\ ~Loading(t)
  /\ Ended(t) => result[t] = result[u]

\* C18 as claimed: a call that begins after a call on a string of the same
\* normalized form has returned a class performs no load and returns that
\* class.
C18_NoLoadAfterReturn ==
  \A t, u \in Threads :
    (ReturnedBefore(u, t) /\ SameClassName(t, u)) => NoLoad(t, u)

\* C18, amended: a call performs no load and returns the same class when
\* it begins after a call on a string of the same normalized form has
\* returned from the load or from a hit of the normalized key, or from a
\* hit of the very string it is given itself; a call that loads although
\* such a call had returned began while the call that loaded first had not
\* ended.
C18_NoLoadAfterLoad ==
  \A t, u \in Threads :
    (ReturnedBefore(u, t) /\ SameClassName(t, u)) =>
      /\ (Loaded(u) \/ NormHit(u) \/ typestring[t] = typestring[u]) => NoLoad(t, u)
      /\ didLoad[t] =>
           \E w \in Threads \ {t, u} :
             /\ w \notin before[t] /\ w \notin before[u]
             /\ didLoad[w] /\ SameClassName(w, t)

\* A call has returned without a load the class that a call before it
\* loaded under another string of the same normalized form.
C18_Witness ==
  \E t, u \in Threads :
    /\ ReturnedBefore(u, t) /\ SameClassName(t, u) /\ Loaded(u)
    /\ typestring[t] # typestring[u]
    /\ phase[t] = "returned" /\ ~didLoad[t] /\ result[t] = result[u]

\* ------------------------------------------ the claims of call after call

\* path names the keys that lead from msg down to a value of one of the
\* kinds; an element of a list is reached under the name of the list.
RECURSIVE PathTo(_, _, _)
PathTo(msg, path, kinds) ==
  IF path = <<>>
    THEN \/ msg.k \in kinds
         \/ msg.k \in list_types /\ \E i \in 1..Len(msg.c) : PathTo(msg.c[i], path, kinds)
  ELSE IF msg.k = "dict"
    THEN HasName(msg, Head(path)) /\ PathTo(getattr(msg, Head(path)), Tail(path), kinds)
  ELSE IF msg.k \in list_types
    THEN \E i \in 1..Len(msg.c) : PathTo(msg.c[i], path, kinds)
  ELSE FALSE

Kinds == { "NoneType", "bool", "int", "long", "float", "str", "unicode", "bytes",
           "list", "tuple", "dict" }

\* The call with its cache left out.
Outcome(r) == [r EXCEPT !.cache = EmptyCache]

InHelper(t) == step[t] \in {"read", "write", "release"}

LocksFreeOutside ==
  /\ \A t \in Threads : Holds(t) => InHelper(t)
  /\ (msgs_lock # 0 \/ srvs_lock # 0) => \E t \in Threads : InHelper(t) /\ LockOf(subname[t]) = t

\* C19: a lock is held only by a thread that is inside a cache helper, so
\* both locks are free when no thread is; and with threads that keep being
\* scheduled, every call of _get_class that has begun returns or raises:
\* from some time on no thread is inside a call.
C19_Termination ==
  /\ []LocksFreeOutside
  /\ <>[](\A t \in Threads : phase[t] = "idle" \/ Ended(t))

\* All threads have called and every call has ended, two of them on one
\* cache with neither ended before the other began; both locks are free.
C19_Witness ==
  /\ \A t \in Threads : Ended(t)
  /\ msgs_lock = 0 /\ srvs_lock = 0
  /\ \E t, u \in Threads : t # u /\ subname[t] = subname[u] /\ t \notin before[u] /\ u \notin before[t]

====
